---- MODULE Spec2Model ----
(***************************************************************************)
(* BreatheHR -> Flip absence synchronisation.                              *)
(*                                                                         *)
(* HR (BreatheHR) holds, per employee, a list of leave requests and a list *)
(* of absences.  Flip holds absence requests addressed by external_id.     *)
(* The full sync handler (api/sync/absences.ts) builds one list of sync    *)
(* items, triggers approve/reject notifications, then runs the             *)
(* start/push/complete session.  The approval check (api/sync/             *)
(* approval-check.ts) only triggers the notifications.                     *)
(***************************************************************************)
EXTENDS Integers, Sequences, FiniteSets, TLC

\* ------------------------------------------------------------------ bounds
NumEmployees == 2      \* mapped employees
MaxRequests  == 2      \* leave requests that exist in HR, all employees
MaxAbsences  == 1      \* absences that exist in HR, all employees
MaxDate      == 1      \* calendar days 1..MaxDate
MaxRuns      == 2      \* handler invocations in one behaviour
MaxLen       == 2      \* unification inputs: records per list
MaxUnifyDate == 2      \* unification inputs: calendar days 1..MaxUnifyDate
MaxFaults    == 1      \* calls (other than cancel) that fail in one behaviour
MaxItems     == 250    \* batching inputs: items in the list to push
NumInvocations == 2    \* full sync invocations that run concurrently
MaxReason    == 2      \* projector inputs: leave reason ids 1..MaxReason
MaxReasonFields == 2   \* projector inputs: free-text reason fields that are set
MaxClock     == 4      \* mapping service: the clock runs up to MaxClock ticks

\* ------------------------------------------------------- program constants
batchSize == 100
cacheTtlMs == 1        \* in clock ticks

\* ------------------------------------------------------------ value helpers
Digit(d) ==
  CASE d = 0 -> "0" [] d = 1 -> "1" [] d = 2 -> "2" [] d = 3 -> "3"
    [] d = 4 -> "4" [] d = 5 -> "5" [] d = 6 -> "6" [] d = 7 -> "7"
    [] d = 8 -> "8" [] OTHER -> "9"

\* String(n): the decimal text of a number, as a sequence of characters.
RECURSIVE String(_)
String(n) ==
  IF n < 10 THEN <<Digit(n)>> ELSE String(n \div 10) \o <<Digit(n % 10)>>

\* `${start_date}|${end_date}`
DateKey(r) == <<r.start_date, "|", r.end_date>>

\* `${date}T00:00:00`
LocalDateTime(d) == <<d, "T00:00:00">>

Employees == 1..NumEmployees
Dates     == 1..MaxDate

\* The user mapping: employee e of HR is Flip user <<"user", e>>.
FlipUser(e) == <<"user", e>>
mappings == [e \in Employees |-> [flipUserId |-> FlipUser(e), breatheEmployeeId |-> e]]

\* ------------------------------------------------- unification (pure part)
\* The Map built from the leave requests: a later request with the same
\* key overwrites an earlier one (Map.set).
leaveRequestMapOf_None(lrs) == <<>>

leaveRequestMapOf(lrs) ==
  LET usable == {i \in 1..Len(lrs) :
                   lrs[i].start_date # 0 /\ lrs[i].end_date # 0 /\ lrs[i].id # 0}
      keys   == {DateKey(lrs[i]) : i \in usable}
      last(k) == CHOOSE i \in usable :
                   /\ DateKey(lrs[i]) = k
                   /\ \A j \in usable : DateKey(lrs[j]) = k => j <= i
  IN [k \in keys |-> lrs[last(k)]]

\* The item returned for an absence, given the external id chosen for it.
AbsenceSyncItem(absence, flipUserId, externalId) ==
  [external_id |-> externalId,
   absentee    |-> flipUserId,
   status      |-> IF absence.cancelled THEN "CANCELLED" ELSE "APPROVED",
   starts_from |-> IF absence.start_date # 0
                     THEN LocalDateTime(absence.start_date) ELSE <<>>,
   ends_at     |-> IF absence.end_date # 0
                     THEN LocalDateTime(absence.end_date) ELSE <<>>]

mapBreatheAbsenceToFlipSync_OwnId(absence, flipUserId, leaveRequestMap) ==
  AbsenceSyncItem(absence, flipUserId, String(absence.id))

\* The external id is the id of the leave request with the absence's dates
\* if there is one, else the id of the absence.
mapBreatheAbsenceToFlipSync(absence, flipUserId, leaveRequestMap) ==
  LET dateKey    == DateKey(absence)
      externalId == IF dateKey \in DOMAIN leaveRequestMap
                      THEN String(leaveRequestMap[dateKey].id)
                      ELSE String(absence.id)
  IN AbsenceSyncItem(absence, flipUserId, externalId)

\* Returns <<item>>, or <<>> for the null result.
mapLeaveRequestToFlipSync(lr, flipUserId, status) ==
  IF lr.start_date = 0 \/ lr.end_date = 0 THEN <<>>
  ELSE <<[external_id |-> String(lr.id),
          absentee    |-> flipUserId,
          status      |-> status,
          starts_from |-> LocalDateTime(lr.start_date),
          ends_at     |-> LocalDateTime(lr.end_date)]>>

\* The accumulators of the item-building loop.
EmptyBuild ==
  [syncItems |-> <<>>, seenExternalIds |-> {},
   absenceCount |-> 0, pendingCount |-> 0, rejectedCount |-> 0]

\* Section A: one item per absence.
RECURSIVE SectionA(_, _, _, _, _)
SectionA(abs, i, flipUserId, leaveRequestMap, b) ==
  IF i > Len(abs) THEN b
  ELSE LET syncItem == mapBreatheAbsenceToFlipSync(abs[i], flipUserId, leaveRequestMap)
       IN SectionA(abs, i + 1, flipUserId, leaveRequestMap,
            IF syncItem.external_id # <<>>
              THEN [b EXCEPT !.syncItems = Append(@, syncItem),
                             !.seenExternalIds = @ \cup {syncItem.external_id},
                             !.absenceCount = @ + 1]
              ELSE b)

AlreadyIncluded_Never(externalId, seenExternalIds) == FALSE

\* seenExternalIds.has(externalId)
AlreadyIncluded(externalId, seenExternalIds) == externalId \in seenExternalIds

\* Section B: pending and denied leave requests not yet seen.
RECURSIVE SectionB(_, _, _, _)
SectionB(lrs, i, flipUserId, b) ==
  IF i > Len(lrs) THEN b
  ELSE LET lr         == lrs[i]
           lrStatus   == lr.status
           externalId == String(lr.id)
           pending    == mapLeaveRequestToFlipSync(lr, flipUserId, "PENDING")
           rejected   == mapLeaveRequestToFlipSync(lr, flipUserId, "REJECTED")
       IN SectionB(lrs, i + 1, flipUserId,
            IF AlreadyIncluded(externalId, b.seenExternalIds) THEN b
            ELSE IF lrStatus = "pending" THEN
              IF pending # <<>>
                THEN [b EXCEPT !.syncItems = @ \o pending,
                               !.seenExternalIds = @ \cup {externalId},
                               !.pendingCount = @ + 1]
                ELSE b
            ELSE IF lrStatus \in {"denied", "rejected", "declined"} THEN
              IF rejected # <<>>
                THEN [b EXCEPT !.syncItems = @ \o rejected,
                               !.seenExternalIds = @ \cup {externalId},
                               !.rejectedCount = @ + 1]
                ELSE b
            ELSE b)

\* The body of the per-employee loop for one mapping, fetches succeeded.
BuildEmployee(mapping, abs, lrs, b) ==
  LET leaveRequestMap == leaveRequestMapOf(lrs)
  IN SectionB(lrs, 1, mapping.flipUserId,
       SectionA(abs, 1, mapping.flipUserId, leaveRequestMap, b))

FetchFailed_Partial(mapping, abs, b) ==
  SectionA(abs, 1, mapping.flipUserId, <<>>, b)

\* A fetch of the employee threw: both fetches come before the first push
\* into syncItems, so the accumulators are as they were.
FetchFailed(mapping, abs, b) == b

\* -------------------------------------------------------------------- state
VARIABLES
  leaveRequests,  \* HR: employee -> sequence of leave requests
  absences,       \* HR: employee -> sequence of absences
  flip,           \* Flip: the tenant's absence requests
  sessions,       \* Flip: sync sessions, indexed by sync_id
  handler,        \* which handler is running: "none", "sync", "check"
  pc,             \* its position
  mappingIdx,     \* loop index over the mappings
  build,          \* sync: syncItems, seenExternalIds and the counters
  errorCount,     \* per-employee errors counted by the running handler
  notif,          \* sync: notifApproved / notifRejected
  itemIdx,        \* sync: index into syncItems (notification loop, push loop)
  syncId,         \* sync: 0 while null, else the sync_id
  thrown,         \* sync: the error that reached the outer catch, "" if none
  tally,          \* check: checked / skipped
  managerCache,   \* check: pairs <<flip user, approver>>
  result,         \* the response of the last finished handler
  calls,          \* the Flip calls issued by the running / last handler
  runs,           \* handler invocations so far
  faults,         \* failed calls so far
  flipAtStart,    \* Flip's requests when the running handler was invoked
  lastRun         \* summary of the last finished run, NoRun after an HR change

hrVars   == <<leaveRequests, absences>>
flipVars == <<flip, sessions>>
syncVars == <<mappingIdx, build, errorCount, notif, itemIdx, syncId, thrown>>
checkVars == <<tally, managerCache>>
histVars == <<runs, flipAtStart, lastRun>>
vars == <<leaveRequests, absences, flip, sessions, handler, pc, mappingIdx,
          build, errorCount, notif, itemIdx, syncId, thrown, tally,
          managerCache, result, calls, runs, faults, flipAtStart, lastRun>>

NoRun == [handler |-> "none", status |-> 0, errors |-> 0, decided |-> {},
          failed |-> {}]
NoNotif == [approved |-> 0, rejected |-> 0]
NoTally == [checked |-> 0, skipped |-> 0]
NoResult == [status |-> 0, message |-> "", synced |-> 0, approved |-> 0,
             rejected |-> 0, skipped |-> 0, errors |-> 0]

AllRequests == UNION {{leaveRequests[e][i] : i \in 1..Len(leaveRequests[e])} : e \in Employees}
AllAbsences == UNION {{absences[e][i] : i \in 1..Len(absences[e])} : e \in Employees}

Init ==
  /\ leaveRequests = [e \in Employees |-> <<>>]
  /\ absences = [e \in Employees |-> <<>>]
  /\ flip = {}
  /\ sessions = <<>>
  /\ handler = "none"
  /\ pc = "idle"
  /\ mappingIdx = 1
  /\ build = EmptyBuild
  /\ errorCount = 0
  /\ notif = NoNotif
  /\ itemIdx = 1
  /\ syncId = 0
  /\ thrown = ""
  /\ tally = NoTally
  /\ managerCache = {}
  /\ result = NoResult
  /\ calls = <<>>
  /\ runs = 0
  /\ faults = 0
  /\ flipAtStart = {}
  /\ lastRun = NoRun

\* ---------------------------------------------- the two systems of record
\* HR assigns ids from two independent sequences: one for leave requests,
\* one for absences.
NextRequestId == Cardinality(AllRequests) + 1
NextAbsenceId == Cardinality(AllAbsences) + 2

HRChanged ==
  /\ runs < MaxRuns
  /\ lastRun' = NoRun
  /\ UNCHANGED <<handler, pc, syncVars, checkVars, result, calls, runs,
                 faults, flipAtStart, sessions>>

HasAbsenceFor(e, lr) ==
  \E i \in 1..Len(absences[e]) :
    /\ absences[e][i].start_date = lr.start_date
    /\ absences[e][i].end_date = lr.end_date

\* created-event webhook, success path: a leave request is created in HR
\* and the Flip request (PENDING) is patched with its id as external_id.
handleAbsenceCreated(e, s, d) ==
  /\ pc = "idle" /\ runs = 0
  /\ Cardinality(AllRequests) < MaxRequests
  /\ leaveRequests' = [leaveRequests EXCEPT ![e] =
       Append(@, [id |-> NextRequestId, start_date |-> s, end_date |-> d,
                  status |-> "pending", action |-> "request"])]
  /\ flip' = flip \cup {[external_id |-> String(NextRequestId),
                         status |-> "PENDING", absentee |-> FlipUser(e)]}
  /\ UNCHANGED absences
  /\ HRChanged

\* A leave request entered in HR directly: Flip has no counterpart.
RequestCreatedInHR(e, s, d) ==
  /\ pc = "idle" /\ runs = 0
  /\ Cardinality(AllRequests) < MaxRequests
  /\ leaveRequests' = [leaveRequests EXCEPT ![e] =
       Append(@, [id |-> NextRequestId, start_date |-> s, end_date |-> d,
                  status |-> "pending", action |-> "request"])]
  /\ UNCHANGED <<absences, flip>>
  /\ HRChanged

\* The manager decides a pending request in HR.
ManagerDecides(e, i, decision) ==
  /\ pc = "idle"
  /\ i \in 1..Len(leaveRequests[e])
  /\ leaveRequests[e][i].status = "pending"
  /\ leaveRequests' = [leaveRequests EXCEPT ![e][i].status = decision]
  /\ UNCHANGED <<absences, flip>>
  /\ HRChanged

\* An approved request becomes an absence (with an id of its own).
AbsenceMaterialises(e, i) ==
  /\ pc = "idle"
  /\ i \in 1..Len(leaveRequests[e])
  /\ leaveRequests[e][i].status = "approved"
  /\ ~HasAbsenceFor(e, leaveRequests[e][i])
  /\ Cardinality(AllAbsences) < MaxAbsences
  /\ absences' = [absences EXCEPT ![e] =
       Append(@, [id |-> NextAbsenceId,
                  start_date |-> leaveRequests[e][i].start_date,
                  end_date |-> leaveRequests[e][i].end_date,
                  cancelled |-> FALSE])]
  /\ UNCHANGED <<leaveRequests, flip>>
  /\ HRChanged

\* An absence booked in HR without a leave request.
AbsenceCreatedInHR(e, s, d) ==
  /\ pc = "idle" /\ runs = 0
  /\ Cardinality(AllAbsences) < MaxAbsences
  /\ absences' = [absences EXCEPT ![e] =
       Append(@, [id |-> NextAbsenceId, start_date |-> s, end_date |-> d,
                  cancelled |-> FALSE])]
  /\ UNCHANGED <<leaveRequests, flip>>
  /\ HRChanged

AbsenceCancelled(e, i) ==
  /\ pc = "idle"
  /\ i \in 1..Len(absences[e])
  /\ ~absences[e][i].cancelled
  /\ absences' = [absences EXCEPT ![e][i].cancelled = TRUE]
  /\ UNCHANGED <<leaveRequests, flip>>
  /\ HRChanged

Environment ==
  \/ \E e \in Employees, s \in Dates, d \in Dates :
       s <= d /\ handleAbsenceCreated(e, s, d)
  \/ \E e \in Employees, s \in Dates, d \in Dates :
       s <= d /\ RequestCreatedInHR(e, s, d)
  \/ \E e \in Employees, i \in 1..MaxRequests :
       \E decision \in {"approved", "denied"} : ManagerDecides(e, i, decision)
  \/ \E e \in Employees, i \in 1..MaxRequests : AbsenceMaterialises(e, i)
  \/ \E e \in Employees, s \in Dates, d \in Dates :
       s <= d /\ AbsenceCreatedInHR(e, s, d)
  \/ \E e \in Employees, i \in 1..MaxAbsences : AbsenceCancelled(e, i)

\* ------------------------------------------------------------ Flip (server)
\* One entry of the call log.
Call(op, arg, ok, status, items) ==
  [op |-> op, arg |-> arg, ok |-> ok, status |-> status, items |-> items,
   approver |-> <<>>]

DecisionOp(status) == IF status = "APPROVED" THEN "approve" ELSE "reject"
DecisionCall(status, approverId, externalId, ok) ==
  [Call(DecisionOp(status), externalId, ok, "", <<>>) EXCEPT !.approver = approverId]

\* The requests getAbsenceRequestByExternalId can return for an external id.
FlipLookup(externalId) == {r \in flip : r.external_id = externalId}

\* approve / reject endpoint, accepted: the PENDING request addressed by the
\* external id takes the decided status.
FlipDecide(externalId, status) ==
  {IF r.external_id = externalId /\ r.status = "PENDING"
     THEN [r EXCEPT !.status = status] ELSE r : r \in flip}

\* complete endpoint, accepted: the tenant's requests become exactly the
\* items pushed in the session.
FlipReplace(items) ==
  {[external_id |-> items[i].external_id, status |-> items[i].status,
    absentee |-> items[i].absentee] : i \in 1..Len(items)}

\* ------------------------------------------------ full sync: POST /api/sync/absences
\* A call may fail while the budget of failures lasts.
Fails == faults < MaxFaults /\ faults' = faults + 1
Succeeds == UNCHANGED faults

\* A handler invocation begins: fresh locals, empty call log.
Invoke(h) ==
  /\ pc = "idle"
  /\ runs < MaxRuns
  /\ runs' = runs + 1
  /\ handler' = h
  /\ mappingIdx' = 1
  /\ build' = EmptyBuild
  /\ errorCount' = 0
  /\ notif' = NoNotif
  /\ itemIdx' = 1
  /\ syncId' = 0
  /\ tally' = NoTally
  /\ managerCache' = {}
  /\ calls' = <<>>
  /\ result' = NoResult
  /\ flipAtStart' = flip
  /\ UNCHANGED <<hrVars, flipVars, lastRun>>

\* Steps 1 and 2: the mappings and the policies are fetched.
SyncBegin ==
  /\ Invoke("sync")
  /\ \/ Succeeds /\ thrown' = "" /\ pc' = "build"
     \/ Fails /\ thrown' = "mappings" /\ pc' = "catch"

\* Step 3, one iteration of the loop over the mappings.
PhaseAfterBuild_NoNotify(items) == "start"

\* After the item-building loop comes the notification loop (step 4), which
\* has no iteration when there is no item, and then the session (step 5).
PhaseAfterBuild(items) == IF Len(items) > 0 THEN "notify" ELSE "start"

SyncBuildEmployee ==
  /\ handler = "sync" /\ pc = "build"
  /\ mappingIdx <= NumEmployees
  /\ LET mapping == mappings[mappingIdx]
         e       == mapping.breatheEmployeeId
     IN \/ /\ Succeeds
           /\ build' = BuildEmployee(mapping, absences[e], leaveRequests[e], build)
           /\ UNCHANGED errorCount
        \/ \* getAllEmployeeAbsences or getAllEmployeeLeaveRequests throws
           /\ Fails
           /\ errorCount' = errorCount + 1
           /\ build' = FetchFailed(mapping, absences[e], build)
  /\ mappingIdx' = mappingIdx + 1
  /\ pc' = IF mappingIdx = NumEmployees
             THEN PhaseAfterBuild(build'.syncItems) ELSE "build"
  /\ UNCHANGED <<checkVars, hrVars, flipVars, handler, notif, itemIdx, syncId, thrown,
                 result, calls, histVars>>

\* Step 4, one iteration of the notification loop.

NeedsNotification_Always(flipRequest) == TRUE

\* flipRequest && flipRequest.status === 'PENDING'
NeedsNotification(flipRequest) == flipRequest.status = "PENDING"

AfterNotify_Abort(log, i, n) ==
  IF log # <<>> /\ log[Len(log)].op \in {"approve", "reject"} /\ ~log[Len(log)].ok
    THEN "catch"
    ELSE IF i = n THEN "start" ELSE "notify"

\* The try / catch inside the loop swallows whatever the lookup or the
\* decision call of item i threw: the loop goes on, and step 5 follows the
\* last of the n items.
AfterNotify(log, i, n) == IF i = n THEN "start" ELSE "notify"

SyncNotifyItem ==
  /\ handler = "sync" /\ pc = "notify"
  /\ itemIdx <= Len(build.syncItems)
  /\ LET item == build.syncItems[itemIdx]
         ext  == item.external_id
     IN IF ext = <<>> \/ item.status \notin {"APPROVED", "REJECTED"}
        THEN Succeeds /\ UNCHANGED <<flip, notif, calls>>
        ELSE
          \/ \* the lookup throws: Flip has no such request
             /\ FlipLookup(ext) = {}
             /\ Succeeds
             /\ calls' = Append(calls, Call("lookup", ext, FALSE, "", <<>>))
             /\ UNCHANGED <<flip, notif>>
          \/ \* the lookup throws: the call failed
             /\ FlipLookup(ext) # {}
             /\ Fails
             /\ calls' = Append(calls, Call("lookup", ext, FALSE, "", <<>>))
             /\ UNCHANGED <<flip, notif>>
          \/ \E flipRequest \in FlipLookup(ext) :
               IF ~NeedsNotification(flipRequest)
               THEN /\ Succeeds
                    /\ calls' = Append(calls,
                         Call("lookup", ext, TRUE, flipRequest.status, <<>>))
                    /\ UNCHANGED <<flip, notif>>
               ELSE \/ \* approve / reject accepted
                       /\ Succeeds
                       /\ flip' = FlipDecide(ext, item.status)
                       /\ notif' = IF item.status = "APPROVED"
                                     THEN [notif EXCEPT !.approved = @ + 1]
                                     ELSE [notif EXCEPT !.rejected = @ + 1]
                       /\ calls' = calls \o
                            <<Call("lookup", ext, TRUE, flipRequest.status, <<>>),
                              DecisionCall(item.status, item.absentee, ext, TRUE)>>
                    \/ \* approve / reject throws: swallowed by the catch
                       /\ Fails
                       /\ calls' = calls \o
                            <<Call("lookup", ext, TRUE, flipRequest.status, <<>>),
                              DecisionCall(item.status, item.absentee, ext, FALSE)>>
                       /\ UNCHANGED <<flip, notif>>
  /\ itemIdx' = itemIdx + 1
  /\ pc' = AfterNotify(calls', itemIdx, Len(build.syncItems))
  /\ UNCHANGED <<checkVars, hrVars, sessions, handler, mappingIdx, build, errorCount,
                 syncId, thrown, result, runs, flipAtStart, lastRun>>

\* Step 5: startAbsenceRequestSync.
Min(a, b) == IF a < b THEN a ELSE b

Batch_Rest(syncItems, i) == SubSeq(syncItems, i, Len(syncItems))

\* syncItems.slice(i, i + batchSize), with i counted from 1.
Batch(syncItems, i) ==
  SubSeq(syncItems, i, Min(i + batchSize - 1, Len(syncItems)))

SyncStart ==
  /\ handler = "sync" /\ pc = "start"
  /\ \/ /\ Succeeds
        /\ sessions' = Append(sessions, [state |-> "open", items |-> <<>>])
        /\ syncId' = Len(sessions) + 1
        /\ calls' = Append(calls, Call("start", String(Len(sessions) + 1), TRUE, "", <<>>))
        /\ itemIdx' = 1
        /\ pc' = IF Len(build.syncItems) > 0 THEN "push" ELSE "complete"
        /\ UNCHANGED thrown
     \/ /\ Fails
        /\ calls' = Append(calls, Call("start", <<>>, FALSE, "", <<>>))
        /\ thrown' = "start"
        /\ pc' = "catch"
        /\ UNCHANGED <<sessions, syncId, itemIdx>>
  /\ UNCHANGED <<checkVars, hrVars, flip, handler, mappingIdx, build, errorCount, notif,
                 result, runs, flipAtStart, lastRun>>

\* Step 6, one iteration of the batch loop: syncItems.slice(i, i + batchSize).
SyncPush ==
  /\ handler = "sync" /\ pc = "push"
  /\ itemIdx <= Len(build.syncItems)
  /\ LET batch == Batch(build.syncItems, itemIdx)
     IN \/ /\ Succeeds
           /\ sessions' = [sessions EXCEPT ![syncId].items = @ \o batch]
           /\ calls' = Append(calls, Call("push", String(syncId), TRUE, "", batch))
           /\ itemIdx' = itemIdx + batchSize
           /\ pc' = IF itemIdx + batchSize <= Len(build.syncItems)
                      THEN "push" ELSE "complete"
           /\ UNCHANGED thrown
        \/ /\ Fails
           /\ calls' = Append(calls, Call("push", String(syncId), FALSE, "", batch))
           /\ thrown' = "push"
           /\ pc' = "catch"
           /\ UNCHANGED <<sessions, itemIdx>>
  /\ UNCHANGED <<checkVars, hrVars, flip, handler, mappingIdx, build, errorCount, notif,
                 syncId, result, runs, flipAtStart, lastRun>>

PhaseAfterComplete_Throws == "catch"

\* After the complete call the try block only answers.
PhaseAfterComplete == "done"

\* Step 7: completeAbsenceRequestSync and the 200 response.
SyncComplete ==
  /\ handler = "sync" /\ pc = "complete"
  /\ \/ /\ Succeeds
        /\ flip' = FlipReplace(sessions[syncId].items)
        /\ sessions' = [sessions EXCEPT ![syncId].state = "completed"]
        /\ calls' = Append(calls, Call("complete", String(syncId), TRUE, "", <<>>))
        /\ result' = [status |-> 200, message |-> "ok",
                      synced |-> build.absenceCount + build.pendingCount
                                   + build.rejectedCount,
                      approved |-> notif.approved, rejected |-> notif.rejected,
                      skipped |-> 0, errors |-> errorCount]
        /\ pc' = PhaseAfterComplete
        /\ UNCHANGED thrown
     \/ /\ Fails
        /\ calls' = Append(calls, Call("complete", String(syncId), FALSE, "", <<>>))
        /\ thrown' = "complete"
        /\ pc' = "catch"
        /\ UNCHANGED <<flip, sessions, result>>
  /\ UNCHANGED <<checkVars, hrVars, handler, mappingIdx, build, errorCount, notif,
                 itemIdx, syncId, runs, flipAtStart, lastRun>>

ShouldCancel_Never(id) == FALSE

\* if (syncId)
ShouldCancel(id) == id # 0

\* The outer catch: cancel the session if one was started, answer 500.
SyncCatch ==
  /\ handler = "sync" /\ pc = "catch"
  /\ IF ShouldCancel(syncId)
       THEN \/ /\ Succeeds
               /\ sessions' = [sessions EXCEPT ![syncId].state = "cancelled"]
               /\ calls' = Append(calls, Call("cancel", String(syncId), TRUE, "", <<>>))
            \/ \* the cancel call throws: logged only
               /\ Succeeds
               /\ calls' = Append(calls, Call("cancel", String(syncId), FALSE, "", <<>>))
               /\ UNCHANGED sessions
       ELSE Succeeds /\ UNCHANGED <<sessions, calls>>
  /\ result' = [status |-> 500, message |-> thrown, synced |-> 0,
                approved |-> 0, rejected |-> 0, skipped |-> 0, errors |-> 0]
  /\ pc' = "done"
  /\ UNCHANGED <<checkVars, hrVars, flip, handler, mappingIdx, build, errorCount, notif,
                 itemIdx, syncId, thrown, runs, flipAtStart, lastRun>>

\* ------------------------------------- approval check: /api/sync/approval-check
\* The manager attribute of the Flip users: the first user has one.
managerAttr(flipUserId) ==
  IF flipUserId = FlipUser(1) THEN <<"manager", 1>> ELSE <<>>

\* resolveApprover: the cached approver; else the manager attribute of the
\* user's profile when getUser answers and the attribute is there; else the
\* absentee themselves.
resolveApprover(flipUserId, cache, getUserOk) ==
  LET cached == {c \in cache : c[1] = flipUserId}
  IN IF cached # {} THEN (CHOOSE c \in cached : TRUE)[2]
     ELSE IF getUserOk /\ managerAttr(flipUserId) # <<>>
       THEN managerAttr(flipUserId)
       ELSE flipUserId

StillPending_Always(flipRequest) == TRUE

\* flipRequest.status === 'PENDING'
StillPending(flipRequest) == flipRequest.status = "PENDING"

CheckBegin ==
  /\ Invoke("check")
  /\ thrown' = ""
  /\ \/ Succeeds /\ pc' = "fetch"
     \/ Fails /\ pc' = "catch"

\* One iteration of the loop over the mappings: the leave requests are fetched.
CheckFetch ==
  /\ handler = "check" /\ pc = "fetch"
  /\ mappingIdx <= NumEmployees
  /\ LET e == mappings[mappingIdx].breatheEmployeeId
     IN \/ /\ Succeeds
           /\ IF Len(leaveRequests[e]) > 0
                THEN pc' = "item" /\ UNCHANGED mappingIdx
                ELSE /\ mappingIdx' = mappingIdx + 1
                     /\ pc' = IF mappingIdx = NumEmployees THEN "respond" ELSE "fetch"
           /\ UNCHANGED errorCount
        \/ /\ Fails
           /\ errorCount' = errorCount + 1
           /\ mappingIdx' = mappingIdx + 1
           /\ pc' = IF mappingIdx = NumEmployees THEN "respond" ELSE "fetch"
  /\ itemIdx' = 1
  /\ UNCHANGED <<hrVars, flipVars, handler, build, notif, syncId, thrown,
                 result, calls, histVars, tally, managerCache>>

\* A loop that goes on with the employee's next leave request whatever happened.
CheckAdvance_Continues(abandon) ==
  LET e == mappings[mappingIdx].breatheEmployeeId
  IN IF itemIdx < Len(leaveRequests[e])
       THEN /\ itemIdx' = itemIdx + 1
            /\ pc' = "item"
            /\ UNCHANGED mappingIdx
       ELSE /\ itemIdx' = 1
            /\ mappingIdx' = mappingIdx + 1
            /\ pc' = IF mappingIdx = NumEmployees THEN "respond" ELSE "fetch"

\* Where the loops go after leave request itemIdx of the current employee.
CheckAdvance(abandon) ==
  LET e == mappings[mappingIdx].breatheEmployeeId
  IN IF ~abandon /\ itemIdx < Len(leaveRequests[e])
       THEN /\ itemIdx' = itemIdx + 1
            /\ pc' = "item"
            /\ UNCHANGED mappingIdx
       ELSE /\ itemIdx' = 1
            /\ mappingIdx' = mappingIdx + 1
            /\ pc' = IF mappingIdx = NumEmployees THEN "respond" ELSE "fetch"

\* One iteration of the loop over the leave requests of the current employee.
CheckItem ==
  /\ handler = "check" /\ pc = "item"
  /\ LET mapping    == mappings[mappingIdx]
         lr         == leaveRequests[mapping.breatheEmployeeId][itemIdx]
         lrStatus   == lr.status
         lrAction   == lr.action
         isApproved == lrStatus = "approved"
         isRejected == lrStatus \in {"denied", "rejected", "declined"}
         externalId == String(lr.id)
         status     == IF isApproved THEN "APPROVED" ELSE "REJECTED"
         cached     == {c \in managerCache : c[1] = mapping.flipUserId}
         skip       == /\ CheckAdvance(FALSE)
                       /\ UNCHANGED <<flip, notif, errorCount, tally, managerCache>>
     IN IF lrAction # "request" \/ (~isApproved /\ ~isRejected)
        THEN Succeeds /\ skip /\ UNCHANGED calls
        ELSE
          \/ \* the lookup throws: Flip has no such request
             /\ FlipLookup(externalId) = {}
             /\ Succeeds
             /\ calls' = Append(calls, Call("lookup", externalId, FALSE, "", <<>>))
             /\ skip
          \/ \* the lookup throws: the call failed
             /\ FlipLookup(externalId) # {}
             /\ Fails
             /\ calls' = Append(calls, Call("lookup", externalId, FALSE, "", <<>>))
             /\ skip
          \/ \E flipRequest \in FlipLookup(externalId) :
               IF ~StillPending(flipRequest)
               THEN \* already processed
                    /\ Succeeds
                    /\ calls' = Append(calls,
                         Call("lookup", externalId, TRUE, flipRequest.status, <<>>))
                    /\ tally' = [tally EXCEPT !.checked = @ + 1, !.skipped = @ + 1]
                    /\ CheckAdvance(FALSE)
                    /\ UNCHANGED <<flip, notif, errorCount, managerCache>>
               ELSE \E getUserOk \in BOOLEAN :
                    LET approverId == resolveApprover(mapping.flipUserId,
                                                      managerCache, getUserOk)
                        \* getUser is called on a cache miss only
                        lost == IF getUserOk THEN 0 ELSE 1
                    IN
                    /\ cached # {} => getUserOk
                    /\ managerCache' = managerCache \cup {<<mapping.flipUserId, approverId>>}
                    /\ \/ \* approve / reject accepted
                          /\ faults + lost <= MaxFaults
                          /\ faults' = faults + lost
                          /\ flip' = FlipDecide(externalId, status)
                          /\ notif' = IF isApproved
                                        THEN [notif EXCEPT !.approved = @ + 1]
                                        ELSE [notif EXCEPT !.rejected = @ + 1]
                          /\ tally' = [tally EXCEPT !.checked = @ + 1]
                          /\ calls' = calls \o
                               <<Call("lookup", externalId, TRUE, flipRequest.status, <<>>),
                                 DecisionCall(status, approverId, externalId, TRUE)>>
                          /\ CheckAdvance(FALSE)
                          /\ UNCHANGED errorCount
                       \/ \* approve / reject throws: caught per employee
                          /\ faults + lost + 1 <= MaxFaults
                          /\ faults' = faults + lost + 1
                          /\ errorCount' = errorCount + 1
                          /\ tally' = [tally EXCEPT !.checked = @ + 1]
                          /\ calls' = calls \o
                               <<Call("lookup", externalId, TRUE, flipRequest.status, <<>>),
                                 DecisionCall(status, approverId, externalId, FALSE)>>
                          /\ CheckAdvance(TRUE)
                          /\ UNCHANGED <<flip, notif>>
  /\ UNCHANGED <<hrVars, sessions, handler, build, syncId, thrown, result,
                 runs, flipAtStart, lastRun>>

\* The 200 response with the counters.
CheckRespond ==
  /\ handler = "check" /\ pc = "respond"
  /\ result' = [status |-> 200, message |-> "ok", synced |-> tally.checked,
                approved |-> notif.approved, rejected |-> notif.rejected,
                skipped |-> tally.skipped, errors |-> errorCount]
  /\ pc' = "done"
  /\ UNCHANGED <<hrVars, flipVars, handler, syncVars, calls, histVars, faults,
                 tally, managerCache>>

\* The outer catch: 500.
CheckCatch ==
  /\ handler = "check" /\ pc = "catch"
  /\ result' = [status |-> 500, message |-> "Approval check failed", synced |-> 0,
                approved |-> 0, rejected |-> 0, skipped |-> 0, errors |-> 0]
  /\ pc' = "done"
  /\ UNCHANGED <<hrVars, flipVars, handler, syncVars, calls, histVars, faults,
                 tally, managerCache>>

ApprovalCheck ==
  \/ CheckBegin
  \/ CheckFetch
  \/ CheckItem
  \/ CheckRespond
  \/ CheckCatch

\* The external ids whose approve / reject call was accepted in this run.
Decided ==
  {calls[i].arg : i \in {j \in 1..Len(calls) :
                           calls[j].op \in {"approve", "reject"} /\ calls[j].ok}}

\* The external ids whose approve / reject call threw in this run.
Failed ==
  {calls[i].arg : i \in {j \in 1..Len(calls) :
                           calls[j].op \in {"approve", "reject"} /\ ~calls[j].ok}}

\* The handler has answered; its locals are gone.
Return ==
  /\ pc = "done"
  /\ pc' = "idle"
  /\ lastRun' = [handler |-> handler, status |-> result.status,
                 errors |-> result.errors, decided |-> Decided,
                 failed |-> Failed]
  /\ handler' = "none"
  /\ mappingIdx' = 1
  /\ build' = EmptyBuild
  /\ errorCount' = 0
  /\ notif' = NoNotif
  /\ itemIdx' = 1
  /\ syncId' = 0
  /\ thrown' = ""
  /\ tally' = NoTally
  /\ managerCache' = {}
  /\ calls' = <<>>
  /\ result' = NoResult
  /\ flipAtStart' = {}
  /\ UNCHANGED <<hrVars, flipVars, runs, faults>>

FullSync ==
  \/ SyncBegin
  \/ SyncBuildEmployee
  \/ SyncNotifyItem
  \/ SyncStart
  \/ SyncPush
  \/ SyncComplete
  \/ SyncCatch

Next ==
  \/ Environment
  \/ FullSync
  \/ ApprovalCheck
  \/ Return

Spec == Init /\ [][Next]_vars

\* ------------------------------------------- unification on arbitrary HR lists
\* The item-building loop applied to the lists HR can return for the first
\* employee: ids are unique within the requests and within the absences, the
\* two id sequences overlap, every status HR knows occurs.
LRStatuses == {"pending", "approved", "denied", "cancelled"}
UnifyDates == 1..MaxUnifyDate

UnifyRequestRecords ==
  {r \in [id : 1..MaxLen, start_date : UnifyDates, end_date : UnifyDates,
          status : LRStatuses, action : {"request"}] : r.start_date <= r.end_date}

UnifyAbsenceRecords ==
  {a \in [id : 2..(MaxLen + 1), start_date : UnifyDates, end_date : UnifyDates,
          cancelled : BOOLEAN] : a.start_date <= a.end_date}

ListsOf(S) ==
  {l \in UNION {[1..k -> S] : k \in 0..MaxLen} :
     \A i \in 1..Len(l), j \in 1..Len(l) : i # j => l[i].id # l[j].id}

InitUnify ==
  /\ \E lrs \in ListsOf(UnifyRequestRecords) :
       leaveRequests = [e \in Employees |-> IF e = 1 THEN lrs ELSE <<>>]
  /\ \E abs \in ListsOf(UnifyAbsenceRecords) :
       absences = [e \in Employees |-> IF e = 1 THEN abs ELSE <<>>]
  /\ flip = {}
  /\ sessions = <<>>
  /\ handler = "sync"
  /\ pc = "build"
  /\ mappingIdx = 1
  /\ build = EmptyBuild
  /\ errorCount = 0
  /\ notif = NoNotif
  /\ itemIdx = 1
  /\ syncId = 0
  /\ thrown = ""
  /\ tally = NoTally
  /\ managerCache = {}
  /\ result = NoResult
  /\ calls = <<>>
  /\ runs = 1
  /\ faults = 0
  /\ flipAtStart = {}
  /\ lastRun = NoRun

NextUnify == SyncBuildEmployee

SpecUnify == InitUnify /\ [][NextUnify]_vars

\* ------------------------------------------- concurrent full sync invocations
\* Nothing in the handler keeps two invocations from running at once (no
\* guard before the try block).  Here pc, build, itemIdx, syncId, thrown and
\* result are the locals of each invocation, as functions of the invocation;
\* sessions, flip and the call log are shared.  Steps 1 to 4 issue no session
\* call: an invocation enters step 5 with the item list it has built.
Invocations == 1..NumInvocations

ItemLists ==
  {<<>>, mapLeaveRequestToFlipSync(
           [id |-> 1, start_date |-> 1, end_date |-> 1, status |-> "pending",
            action |-> "request"], FlipUser(1), "PENDING")}

InitConcurrent ==
  /\ leaveRequests = [e \in Employees |-> <<>>]
  /\ absences = [e \in Employees |-> <<>>]
  /\ flip = {}
  /\ sessions = <<>>
  /\ handler = "sync"
  /\ pc = [p \in Invocations |-> "idle"]
  /\ mappingIdx = 1
  /\ build = [p \in Invocations |-> EmptyBuild]
  /\ errorCount = 0
  /\ notif = NoNotif
  /\ itemIdx = [p \in Invocations |-> 1]
  /\ syncId = [p \in Invocations |-> 0]
  /\ thrown = [p \in Invocations |-> ""]
  /\ tally = NoTally
  /\ managerCache = {}
  /\ result = [p \in Invocations |-> NoResult]
  /\ calls = <<>>
  /\ runs = 0
  /\ faults = 0
  /\ flipAtStart = {}
  /\ lastRun = NoRun

concurrentFrame ==
  <<leaveRequests, absences, handler, mappingIdx, errorCount, notif, tally,
    managerCache, runs, faults, flipAtStart, lastRun>>

\* Steps 1 to 4 of invocation p.
ConcurrentBuild(p) ==
  /\ pc[p] = "idle"
  /\ \E items \in ItemLists :
       build' = [build EXCEPT ![p] = [EmptyBuild EXCEPT !.syncItems = items]]
  /\ pc' = [pc EXCEPT ![p] = "start"]
  /\ UNCHANGED <<concurrentFrame, flip, sessions, itemIdx, syncId, thrown, result, calls>>

\* Step 5 of invocation p.
ConcurrentStart(p) ==
  /\ pc[p] = "start"
  /\ \/ /\ sessions' = Append(sessions, [state |-> "open", items |-> <<>>])
        /\ syncId' = [syncId EXCEPT ![p] = Len(sessions) + 1]
        /\ calls' = Append(calls, Call("start", String(Len(sessions) + 1), TRUE, "", <<>>))
        /\ pc' = [pc EXCEPT ![p] =
                    IF Len(build[p].syncItems) > 0 THEN "push" ELSE "complete"]
        /\ UNCHANGED thrown
     \/ /\ calls' = Append(calls, Call("start", <<>>, FALSE, "", <<>>))
        /\ thrown' = [thrown EXCEPT ![p] = "start"]
        /\ pc' = [pc EXCEPT ![p] = "catch"]
        /\ UNCHANGED <<sessions, syncId>>
  /\ UNCHANGED <<concurrentFrame, flip, build, itemIdx, result>>

\* Step 6 of invocation p, one iteration of the batch loop.
ConcurrentPush(p) ==
  /\ pc[p] = "push"
  /\ LET batch == Batch(build[p].syncItems, itemIdx[p])
     IN \/ /\ sessions' = [sessions EXCEPT ![syncId[p]].items = @ \o batch]
           /\ calls' = Append(calls, Call("push", String(syncId[p]), TRUE, "", batch))
           /\ itemIdx' = [itemIdx EXCEPT ![p] = @ + batchSize]
           /\ pc' = [pc EXCEPT ![p] =
                       IF itemIdx[p] + batchSize <= Len(build[p].syncItems)
                         THEN "push" ELSE "complete"]
           /\ UNCHANGED thrown
        \/ /\ calls' = Append(calls, Call("push", String(syncId[p]), FALSE, "", batch))
           /\ thrown' = [thrown EXCEPT ![p] = "push"]
           /\ pc' = [pc EXCEPT ![p] = "catch"]
           /\ UNCHANGED <<sessions, itemIdx>>
  /\ UNCHANGED <<concurrentFrame, flip, build, syncId, result>>

\* Step 7 of invocation p.
ConcurrentComplete(p) ==
  /\ pc[p] = "complete"
  /\ \/ /\ flip' = FlipReplace(sessions[syncId[p]].items)
        /\ sessions' = [sessions EXCEPT ![syncId[p]].state = "completed"]
        /\ calls' = Append(calls, Call("complete", String(syncId[p]), TRUE, "", <<>>))
        /\ result' = [result EXCEPT ![p] =
                        [NoResult EXCEPT !.status = 200, !.message = "ok",
                                         !.synced = Len(build[p].syncItems)]]
        /\ pc' = [pc EXCEPT ![p] = PhaseAfterComplete]
        /\ UNCHANGED thrown
     \/ /\ calls' = Append(calls, Call("complete", String(syncId[p]), FALSE, "", <<>>))
        /\ thrown' = [thrown EXCEPT ![p] = "complete"]
        /\ pc' = [pc EXCEPT ![p] = "catch"]
        /\ UNCHANGED <<flip, sessions, result>>
  /\ UNCHANGED <<concurrentFrame, build, itemIdx, syncId>>

\* The outer catch of invocation p.
ConcurrentCatch(p) ==
  /\ pc[p] = "catch"
  /\ IF ShouldCancel(syncId[p])
       THEN \/ /\ sessions' = [sessions EXCEPT ![syncId[p]].state = "cancelled"]
               /\ calls' = Append(calls, Call("cancel", String(syncId[p]), TRUE, "", <<>>))
            \/ /\ calls' = Append(calls, Call("cancel", String(syncId[p]), FALSE, "", <<>>))
               /\ UNCHANGED sessions
       ELSE UNCHANGED <<sessions, calls>>
  /\ result' = [result EXCEPT ![p] =
                  [NoResult EXCEPT !.status = 500, !.message = thrown[p]]]
  /\ pc' = [pc EXCEPT ![p] = "done"]
  /\ UNCHANGED <<concurrentFrame, flip, build, itemIdx, syncId, thrown>>

NextConcurrent ==
  \E p \in Invocations :
    \/ ConcurrentBuild(p)
    \/ ConcurrentStart(p)
    \/ ConcurrentPush(p)
    \/ ConcurrentComplete(p)
    \/ ConcurrentCatch(p)

SpecConcurrent == InitConcurrent /\ [][NextConcurrent]_vars

\* ------------------------------------------------ the session on long item lists
\* Steps 5 to 7 and the catch, entered with an item list of any length up to
\* MaxItems.
BatchItem(i) ==
  [external_id |-> String(i), absentee |-> FlipUser(1), status |-> "APPROVED",
   starts_from |-> LocalDateTime(1), ends_at |-> LocalDateTime(1)]

InitBatch ==
  /\ leaveRequests = [e \in Employees |-> <<>>]
  /\ absences = [e \in Employees |-> <<>>]
  /\ flip = {}
  /\ sessions = <<>>
  /\ handler = "sync"
  /\ pc = "start"
  /\ mappingIdx = NumEmployees + 1
  /\ \E n \in 0..MaxItems :
       build = [EmptyBuild EXCEPT !.syncItems = [i \in 1..n |-> BatchItem(i)],
                                  !.absenceCount = n]
  /\ errorCount = 0
  /\ notif = NoNotif
  /\ itemIdx = 1
  /\ syncId = 0
  /\ thrown = ""
  /\ tally = NoTally
  /\ managerCache = {}
  /\ result = NoResult
  /\ calls = <<>>
  /\ runs = 1
  /\ faults = 0
  /\ flipAtStart = {}
  /\ lastRun = NoRun

NextBatch ==
  \/ SyncStart
  \/ SyncPush
  \/ SyncComplete
  \/ SyncCatch

SpecBatch == InitBatch /\ [][NextBatch]_vars

\* ------------------------------------------- the full sync on records without dates
\* The full sync from its item-building loop on, on lists in which a leave
\* request or an absence can lack its start date or its end date (0).
MalformedDates == 0..MaxDate

MalformedRequestRecords ==
  {r \in [id : 1..MaxLen, start_date : MalformedDates, end_date : MalformedDates,
          status : {"pending", "approved", "denied"}, action : {"request"}] :
     r.start_date = 0 \/ r.end_date = 0 \/ r.start_date <= r.end_date}

MalformedAbsenceRecords ==
  {a \in [id : 2..(MaxLen + 1), start_date : MalformedDates,
          end_date : MalformedDates, cancelled : BOOLEAN] :
     a.start_date = 0 \/ a.end_date = 0 \/ a.start_date <= a.end_date}

InitMalformed ==
  /\ \E lrs \in ListsOf(MalformedRequestRecords) :
       leaveRequests = [e \in Employees |-> IF e = 1 THEN lrs ELSE <<>>]
  /\ \E abs \in ListsOf(MalformedAbsenceRecords) :
       absences = [e \in Employees |-> IF e = 1 THEN abs ELSE <<>>]
  /\ flip = {}
  /\ sessions = <<>>
  /\ handler = "sync"
  /\ pc = "build"
  /\ mappingIdx = 1
  /\ build = EmptyBuild
  /\ errorCount = 0
  /\ notif = NoNotif
  /\ itemIdx = 1
  /\ syncId = 0
  /\ thrown = ""
  /\ tally = NoTally
  /\ managerCache = {}
  /\ result = NoResult
  /\ calls = <<>>
  /\ runs = 1
  /\ faults = 0
  /\ flipAtStart = {}
  /\ lastRun = NoRun

NextMalformed ==
  \/ SyncBuildEmployee
  \/ SyncNotifyItem
  \/ SyncStart
  \/ SyncPush
  \/ SyncComplete
  \/ SyncCatch

SpecMalformed == InitMalformed /\ [][NextMalformed]_vars

\* ------------------------------------------------ full sync with failing fetches
\* The full sync from its item-building loop on, when the fetch of any number
\* of employees can fail: every employee has at most one leave request and at
\* most one absence, Flip holds any of the requests an earlier run can have
\* left, and the budget of failures has room for one failure per employee.
FetchFaultsStart == MaxFaults - NumEmployees

FetchRequestLists(e) ==
  {<<>>} \cup {<<[id |-> e, start_date |-> 1, end_date |-> 1, status |-> st,
                  action |-> "request"]>> : st \in {"pending", "denied"}}

FetchAbsenceLists(e) ==
  {<<>>} \cup {<<[id |-> NumEmployees + e, start_date |-> 1, end_date |-> 1,
                  cancelled |-> c]>> : c \in BOOLEAN}

FetchFlipStates ==
  SUBSET ({[external_id |-> String(e), status |-> "PENDING", absentee |-> FlipUser(e)] :
             e \in Employees}
          \cup {[external_id |-> String(NumEmployees + e), status |-> "APPROVED",
                 absentee |-> FlipUser(e)] : e \in Employees})

InitFetch ==
  /\ leaveRequests \in [Employees -> UNION {FetchRequestLists(e) : e \in Employees}]
  /\ \A e \in Employees : leaveRequests[e] \in FetchRequestLists(e)
  /\ absences \in [Employees -> UNION {FetchAbsenceLists(e) : e \in Employees}]
  /\ \A e \in Employees : absences[e] \in FetchAbsenceLists(e)
  /\ flip \in FetchFlipStates
  /\ sessions = <<>>
  /\ handler = "sync"
  /\ pc = "build"
  /\ mappingIdx = 1
  /\ build = EmptyBuild
  /\ errorCount = 0
  /\ notif = NoNotif
  /\ itemIdx = 1
  /\ syncId = 0
  /\ thrown = ""
  /\ tally = NoTally
  /\ managerCache = {}
  /\ result = NoResult
  /\ calls = <<>>
  /\ runs = 1
  /\ faults = FetchFaultsStart
  /\ flipAtStart = flip
  /\ lastRun = NoRun

NextFetch ==
  \/ SyncBuildEmployee
  \/ SyncNotifyItem
  \/ SyncStart
  \/ SyncPush
  \/ SyncComplete
  \/ SyncCatch

SpecFetch == InitFetch /\ [][NextFetch]_vars

\* ----------------------------------------------------- the projector in detail
\* Texts are sequences of characters or of whole words; <<>> is the missing
\* (undefined, null or empty) text.
Blank == <<" ">>

RECURSIVE TrimStart(_)
TrimStart(t) == IF t # <<>> /\ Head(t) = " " THEN TrimStart(Tail(t)) ELSE t

RECURSIVE TrimEnd(_)
TrimEnd(t) ==
  IF t # <<>> /\ t[Len(t)] = " " THEN TrimEnd(SubSeq(t, 1, Len(t) - 1)) ELSE t

\* String.prototype.trim
Trim(t) == TrimEnd(TrimStart(t))

\* The fields extractRejectionReason reads, in the order of its || chain.
ReasonFields ==
  <<"rejection_reason", "declined_reason", "reject_reason", "denial_reason",
    "reviewer_notes", "reviewer_comment", "manager_comment", "manager_notes",
    "approver_comment", "reason", "comment">>

\* a || b || ... || null: the first value of the chain that is truthy, that
\* is, a text that is not empty (a blank text is truthy).
FirstTruthy(raw) ==
  LET set == {i \in 1..Len(ReasonFields) : raw[ReasonFields[i]] # <<>>}
  IN IF set = {} THEN <<>>
     ELSE raw[ReasonFields[CHOOSE i \in set : \A j \in set : i <= j]]

extractRejectionReason(lr) ==
  LET reason == FirstTruthy(lr.reasons)
  IN IF reason # <<>> /\ Trim(reason) # <<>> THEN Trim(reason) ELSE <<>>

\* The comment of a leave request's item.
requestorComment(lr, status) ==
  LET comment         == lr.notes
      rejectionReason == extractRejectionReason(lr)
  IN IF status = "REJECTED" /\ rejectionReason # <<>>
       THEN IF comment # <<>>
              THEN comment \o <<"\n\n--- Manager's reason: ">> \o rejectionReason
              ELSE <<"Manager's reason: ">> \o rejectionReason
       ELSE comment

annual_leave == <<"annual_leave">>

\* The policy of an absence's item: the leave reason id when the absence
\* names a leave reason and Flip has a policy with that external id.
policyExternalIdOf(absence, policyByExternalId) ==
  IF absence.leave_reason # <<>>
    THEN LET leaveReasonId == IF absence.leave_reason_id # 0
                                THEN absence.leave_reason_id
                                ELSE absence.other_leave_reason_id
         IN IF leaveReasonId # 0 /\ String(leaveReasonId) \in policyByExternalId
              THEN String(leaveReasonId)
              ELSE annual_leave
    ELSE annual_leave

startsFromType_First(halfStart) == IF halfStart THEN "FIRST_HALF" ELSE "undefined"

startsFromType(halfStart) == IF halfStart THEN "SECOND_HALF" ELSE "undefined"

endsAtType(halfEnd) == IF halfEnd THEN "FIRST_HALF" ELSE "undefined"

\* The item with the fields the handler does not read: policy, comment and
\* the half-day types next to the dates.
SyncRequest(item, policy, comment, startType, endType) ==
  [external_id       |-> item.external_id,
   absentee          |-> item.absentee,
   status            |-> item.status,
   policy            |-> [external_id |-> policy],
   requestor_comment |-> comment,
   starts_from       |-> [date |-> item.starts_from, type |-> startType],
   ends_at           |-> [date |-> item.ends_at, type |-> endType]]

\* mapBreatheAbsenceToFlipSync, every field of the returned object.
SyncRequestOfAbsence(absence, flipUserId, policyByExternalId, leaveRequestMap) ==
  SyncRequest(mapBreatheAbsenceToFlipSync(absence, flipUserId, leaveRequestMap),
              policyExternalIdOf(absence, policyByExternalId),
              absence.notes,
              startsFromType(absence.half_start),
              endsAtType(absence.half_end))

\* mapLeaveRequestToFlipSync, every field of the returned object; <<>> for null.
SyncRequestOfLeaveRequest(lr, flipUserId, status) ==
  LET item == mapLeaveRequestToFlipSync(lr, flipUserId, status)
  IN IF item = <<>> THEN <<>>
     ELSE <<SyncRequest(item[1], annual_leave, requestorComment(lr, status),
                        startsFromType(lr.half_start \/ lr.start_half_day),
                        endsAtType(lr.half_end \/ lr.end_half_day))>>

\* date.split('T')[0] || ''
DatePart(dateTime) == IF dateTime = <<>> THEN 0 ELSE dateTime[1]

\* The leave request the created-event webhook asks HR to create for the
\* data of a Flip absence request.
createLeaveRequestBody(data) ==
  [start_date |-> DatePart(data.starts_from.date),
   end_date   |-> DatePart(data.ends_at.date),
   half_start |-> data.starts_from.type = "SECOND_HALF",
   half_end   |-> data.ends_at.type = "FIRST_HALF"]

\* Inputs: one absence, or one leave request, of the first employee, and the
\* external ids of Flip's policies.
Notes == {<<>>, <<"note">>}
ReasonIds == 0..MaxReason

ReasonFieldSet == {ReasonFields[i] : i \in 1..Len(ReasonFields)}

NoReasons == [f \in ReasonFieldSet |-> <<>>]

\* The values a free-text field that is set can have: blank, a text, a text
\* in blanks.
ReasonText(f, kind) ==
  CASE kind = "blank" -> Blank
    [] kind = "text"  -> <<f>>
    [] OTHER          -> <<" ", f, " ">>

ReasonRecords ==
  UNION {{[f \in ReasonFieldSet |-> IF f \in S THEN ReasonText(f, kinds[f]) ELSE <<>>] :
            kinds \in [S -> {"blank", "text", "padded"}]} :
         S \in {T \in SUBSET ReasonFieldSet : Cardinality(T) <= MaxReasonFields}}

ProjectAbsenceRecords ==
  {a \in [id : {2}, start_date : UnifyDates, end_date : UnifyDates,
          cancelled : BOOLEAN, half_start : BOOLEAN, half_end : BOOLEAN,
          leave_reason : {<<>>, <<"Sickness">>}, leave_reason_id : ReasonIds,
          other_leave_reason_id : ReasonIds, notes : Notes] :
     a.start_date <= a.end_date}

\* Leave requests: the dates, half-day flags and leave reason vary while the
\* free-text fields are unset, or the free-text fields vary.
ProjectRequestRecords ==
  {r \in [id : {1}, start_date : UnifyDates, end_date : UnifyDates,
          status : {"pending", "denied"}, action : {"request"},
          half_start : BOOLEAN, half_end : BOOLEAN,
          start_half_day : BOOLEAN, end_half_day : BOOLEAN,
          leave_reason_id : ReasonIds, notes : Notes, reasons : {NoReasons}] :
     r.start_date <= r.end_date}
  \cup
  [id : {1}, start_date : {1}, end_date : {1},
   status : {"pending", "denied"}, action : {"request"},
   half_start : {FALSE}, half_end : {FALSE},
   start_half_day : {FALSE}, end_half_day : {FALSE},
   leave_reason_id : {0}, notes : Notes, reasons : ReasonRecords \ {NoReasons}]

InitProject ==
  /\ \/ /\ \E lr \in ProjectRequestRecords :
             leaveRequests = [e \in Employees |-> IF e = 1 THEN <<lr>> ELSE <<>>]
        /\ absences = [e \in Employees |-> <<>>]
     \/ /\ \E a \in ProjectAbsenceRecords :
             absences = [e \in Employees |-> IF e = 1 THEN <<a>> ELSE <<>>]
        /\ leaveRequests = [e \in Employees |-> <<>>]
  /\ \E ids \in SUBSET (1..MaxReason) :
       build = [policyByExternalId |-> {String(i) : i \in ids}, projected |-> <<>>]
  /\ flip = {}
  /\ sessions = <<>>
  /\ handler = "sync"
  /\ pc = "project"
  /\ mappingIdx = 1
  /\ errorCount = 0
  /\ notif = NoNotif
  /\ itemIdx = 1
  /\ syncId = 0
  /\ thrown = ""
  /\ tally = NoTally
  /\ managerCache = {}
  /\ result = <<>>
  /\ calls = <<>>
  /\ runs = 1
  /\ faults = 0
  /\ flipAtStart = {}
  /\ lastRun = NoRun

projectFrame ==
  UNCHANGED <<hrVars, flipVars, handler, mappingIdx, errorCount, notif, itemIdx,
              syncId, thrown, tally, managerCache, calls, faults, histVars>>

\* Section A's call of the mapper for the absence.
ProjectAbsence ==
  /\ pc = "project"
  /\ absences[1] # <<>>
  /\ build' = [build EXCEPT !.projected =
       <<SyncRequestOfAbsence(absences[1][1], mappings[1].flipUserId,
                              build.policyByExternalId,
                              leaveRequestMapOf(leaveRequests[1]))>>]
  /\ pc' = "projected"
  /\ UNCHANGED result
  /\ projectFrame

\* Section B's call of the mapper for the leave request.
ProjectLeaveRequest ==
  /\ pc = "project"
  /\ leaveRequests[1] # <<>>
  /\ LET lr == leaveRequests[1][1]
     IN build' = [build EXCEPT !.projected =
          SyncRequestOfLeaveRequest(lr, mappings[1].flipUserId,
            IF lr.status = "pending" THEN "PENDING" ELSE "REJECTED")]
  /\ pc' = "projected"
  /\ UNCHANGED result
  /\ projectFrame

\* The created-event webhook receives the projected value.
WebhookCreated ==
  /\ pc = "projected"
  /\ build.projected # <<>>
  /\ result' = <<createLeaveRequestBody(build.projected[1])>>
  /\ pc' = "created"
  /\ UNCHANGED build
  /\ projectFrame

NextProject ==
  \/ ProjectAbsence
  \/ ProjectLeaveRequest
  \/ WebhookCreated

SpecProject == InitProject /\ [][NextProject]_vars

\* ------------------------------------------------- the user mapping service
\* UserMappingService (lib/flip.ts), one long-lived instance as in the
\* webhook module.  In this specification
\*   leaveRequests is HR's employee list: records [id, employee_ref],
\*   flip          is Flip's user directory: records [id, exthrref],
\*   managerCache  is the instance: its three Maps and lastRefresh,
\*   runs          is the clock (Date.now()),
\*   result        is the outcome of the last lookup,
\* and the other variables do not change.
EmployeeRefs == {<<>>, <<"A">>, <<" ", "A">>, <<"B">>}
UserRefs     == {<<>>, <<"A">>, <<"B">>}
UserIds      == {FlipUser(e) : e \in Employees}

EmptyCache ==
  [mappingByFlipUserId |-> <<>>, mappingByBreatheId |-> <<>>,
   mappingByRef |-> <<>>, lastRefresh |-> 0]

NoLookup == [op |-> "none", refreshed |-> FALSE, lost |-> {}, value |-> {}]

\* Map.set
MapSet(map, key, value) ==
  [k \in DOMAIN map \cup {key} |-> IF k = key THEN value ELSE map[k]]

\* Map.get(key) ?? null, as a set with at most one element
MapGet(map, key) == IF key \in DOMAIN map THEN {map[key]} ELSE {}

\* employee_ref, trimmed; <<>> for null
extractRef(employee) == Trim(employee.employee_ref)

\* The first user Flip finds with the exthrref attribute, as a set; none when
\* the search failed (the error is caught and null returned).
findUserByExtHRRef(users, extHRRef, failed) ==
  LET found == {u \in users : u.exthrref = extHRRef}
  IN IF failed \/ found = {} THEN {}
     ELSE {CHOOSE u \in found : \A v \in found : u.id[2] <= v.id[2]}

\* The loop of refreshMappings from employee i on; lost are the employees
\* whose user search fails.  The Maps are written, never cleared.
RECURSIVE refreshMappings(_, _, _, _, _, _)
refreshMappings(employees, i, users, lost, cache, now) ==
  IF i > Len(employees) THEN [cache EXCEPT !.lastRefresh = now]
  ELSE LET emp      == employees[i]
           ref      == extractRef(emp)
           flipUser == findUserByExtHRRef(users, ref, emp.id \in lost)
       IN refreshMappings(employees, i + 1, users, lost,
            IF ref = <<>> \/ flipUser = {} THEN cache
            ELSE LET uid     == (CHOOSE u \in flipUser : TRUE).id
                     mapping == [flipUserId |-> uid, breatheEmployeeId |-> emp.id,
                                 breatheRef |-> ref]
                 IN [cache EXCEPT
                       !.mappingByFlipUserId = MapSet(@, uid, mapping),
                       !.mappingByBreatheId  = MapSet(@, emp.id, mapping),
                       !.mappingByRef        = MapSet(@, ref, mapping)],
            now)

\* The test of ensureFresh.
Stale(cache, now) ==
  now - cache.lastRefresh > cacheTtlMs \/ DOMAIN cache.mappingByRef = {}

InitMapping ==
  /\ leaveRequests \in [Employees -> [id : Employees, employee_ref : EmployeeRefs]]
  /\ \A e \in Employees : leaveRequests[e].id = e
  /\ flip \in SUBSET [id : UserIds, exthrref : UserRefs]
  /\ \A u \in flip, v \in flip : u.id = v.id => u = v
  /\ managerCache = EmptyCache
  /\ runs = cacheTtlMs + 1
  /\ result = NoLookup
  /\ absences = [e \in Employees |-> <<>>]
  /\ sessions = <<>>
  /\ handler = "none"
  /\ pc = "idle"
  /\ mappingIdx = 1
  /\ build = EmptyBuild
  /\ errorCount = 0
  /\ notif = NoNotif
  /\ itemIdx = 1
  /\ syncId = 0
  /\ thrown = ""
  /\ tally = NoTally
  /\ calls = <<>>
  /\ faults = 0
  /\ flipAtStart = {}
  /\ lastRun = NoRun

mappingFrame ==
  UNCHANGED <<absences, sessions, handler, pc, syncVars, tally, calls,
              flipAtStart, lastRun>>

\* HR: the reference of an employee is set, changed or removed.
EmployeeRefChanged ==
  /\ \E e \in Employees, ref \in EmployeeRefs :
       /\ ref # leaveRequests[e].employee_ref
       /\ leaveRequests' = [leaveRequests EXCEPT ![e].employee_ref = ref]
  /\ result' = NoLookup
  /\ UNCHANGED <<flip, managerCache, runs, faults>>
  /\ mappingFrame

\* Flip: the exthrref attribute of a user is set, changed or removed.
UserRefChanged ==
  /\ \E u \in flip, ref \in UserRefs :
       /\ ref # u.exthrref
       /\ flip' = (flip \ {u}) \cup {[u EXCEPT !.exthrref = ref]}
  /\ result' = NoLookup
  /\ UNCHANGED <<leaveRequests, managerCache, runs, faults>>
  /\ mappingFrame

\* Time passes.
Tick ==
  /\ runs < MaxClock
  /\ runs' = runs + 1
  /\ UNCHANGED <<leaveRequests, flip, managerCache, result, faults>>
  /\ mappingFrame

\* Array.from(this.mappingByRef.values())
AllMappings(cache) == {cache.mappingByRef[k] : k \in DOMAIN cache.mappingByRef}

\* The value a lookup returns from the Maps.
Read(op, key, cache) ==
  CASE op = "getAllMappings" -> AllMappings(cache)
    [] op = "getBreatheEmployeeId" ->
         {m.breatheEmployeeId : m \in MapGet(cache.mappingByFlipUserId, key)}
    [] op = "getFlipUserId" ->
         {m.flipUserId : m \in MapGet(cache.mappingByBreatheId, key)}
    [] op = "getMappingByRef" -> MapGet(cache.mappingByRef, key)

\* ensureFresh followed by the read of a lookup.  getAllEmployees can throw,
\* and then the lookup throws.
Lookup(op, key) ==
  /\ IF Stale(managerCache, runs)
       THEN \/ \E lost \in SUBSET Employees :
                 /\ faults + Cardinality(lost) <= MaxFaults
                 /\ faults' = faults + Cardinality(lost)
                 /\ managerCache' = refreshMappings(leaveRequests, 1, flip, lost,
                                                    managerCache, runs)
                 /\ result' = [op |-> op, refreshed |-> TRUE, lost |-> lost,
                               value |-> Read(op, key, managerCache')]
            \/ /\ Fails
               /\ result' = [op |-> "threw", refreshed |-> FALSE, lost |-> {},
                             value |-> {}]
               /\ UNCHANGED managerCache
       ELSE /\ result' = [op |-> op, refreshed |-> FALSE, lost |-> {},
                          value |-> Read(op, key, managerCache)]
            /\ UNCHANGED <<managerCache, faults>>
  /\ UNCHANGED <<leaveRequests, flip, runs>>
  /\ mappingFrame

getAllMappings ==
  /\ pc = "idle"
  /\ Lookup("getAllMappings", <<>>)

getBreatheEmployeeId ==
  /\ pc = "idle"
  /\ \E flipUserId \in UserIds : Lookup("getBreatheEmployeeId", flipUserId)

getFlipUserId ==
  /\ pc = "idle"
  /\ \E breatheEmployeeId \in Employees : Lookup("getFlipUserId", breatheEmployeeId)

getMappingByRef ==
  /\ pc = "idle"
  /\ \E ref \in {Trim(r) : r \in EmployeeRefs} \ {<<>>} : Lookup("getMappingByRef", ref)

NextMapping ==
  \/ EmployeeRefChanged
  \/ UserRefChanged
  \/ Tick
  \/ getAllMappings
  \/ getBreatheEmployeeId
  \/ getFlipUserId
  \/ getMappingByRef

SpecMapping == InitMapping /\ [][NextMapping]_vars

\* ------------------------------------- approval status: /api/sync/approval-status
\* The handler of api/sync/approval-status.ts, run once on the lists HR can
\* return for the first employee and on the requests Flip can hold for their
\* ids.  In this specification build holds the handler's locals
\* (processedExternalIds, the fetched leave requests, the position in
\* matchingLRs, approvedViaLR) and tally its counters.
StatusLocals ==
  [processedExternalIds |-> {}, leaveRequests |-> <<>>, matchIdx |-> 1,
   approvedViaLR |-> FALSE]

StatusTally == [approved |-> 0, rejected |-> 0, stillPending |-> 0]

StatusRequestRecords ==
  [id : 1..MaxLen, start_date : Dates, end_date : Dates,
   status : LRStatuses, action : {"request"}]

StatusAbsenceRecords ==
  [id : 2..(MaxLen + 1), start_date : Dates, end_date : Dates, cancelled : BOOLEAN]

\* Flip holds at most one request per external id, of the first user.
StatusFlipStates ==
  {{[external_id |-> String(i), status |-> st[i], absentee |-> FlipUser(1)] :
      i \in {j \in 1..(MaxLen + 1) : st[j] # "none"}} :
   st \in [1..(MaxLen + 1) -> {"none", "PENDING", "APPROVED", "REJECTED"}]}

InitStatus ==
  /\ \E lrs \in ListsOf({r \in StatusRequestRecords : r.start_date <= r.end_date}) :
       leaveRequests = [e \in Employees |-> IF e = 1 THEN lrs ELSE <<>>]
  /\ \E abs \in ListsOf({r \in StatusAbsenceRecords : r.start_date <= r.end_date}) :
       absences = [e \in Employees |-> IF e = 1 THEN abs ELSE <<>>]
  /\ flip \in StatusFlipStates
  /\ sessions = <<>>
  /\ handler = "status"
  /\ pc = "begin"
  /\ mappingIdx = 1
  /\ build = StatusLocals
  /\ errorCount = 0
  /\ notif = NoNotif
  /\ itemIdx = 1
  /\ syncId = 0
  /\ thrown = ""
  /\ tally = StatusTally
  /\ managerCache = {}
  /\ result = NoResult
  /\ calls = <<>>
  /\ runs = 1
  /\ faults = 0
  /\ flipAtStart = flip
  /\ lastRun = NoRun

statusFrame ==
  UNCHANGED <<hrVars, sessions, handler, notif, syncId, thrown, managerCache,
              histVars>>

\* leaveRequestsByDate.get(dateKey) || []
matchingLRsOf(lrs, absence) ==
  SelectSeq(lrs, LAMBDA lr : /\ lr.start_date # 0 /\ lr.end_date # 0 /\ lr.id # 0
                             /\ DateKey(lr) = DateKey(absence))

\* The status and action tests of steps 2 and 3.
isRejected(lr) ==
  \/ lr.status \in {"rejected", "declined", "denied"}
  \/ lr.action \in {"reject", "decline", "declined", "denied", "deny"}

isApproved(lr) == lr.status = "approved" \/ lr.action \in {"approve", "approved"}

\* processedExternalIds.has(externalId)
Processed(processedExternalIds, externalId) == externalId \in processedExternalIds

\* The lookup of an external id and, when Flip's request is PENDING, the
\* approve / reject call, with the outcome: "notfound" (the lookup threw),
\* "settled" (the request is not PENDING), "decided" (the call was accepted),
\* "threw" (the call threw).
TryDecide(externalId, status, approverId, outcome) ==
  \/ /\ outcome = "notfound"
     /\ FlipLookup(externalId) = {}
     /\ Succeeds
     /\ calls' = Append(calls, Call("lookup", externalId, FALSE, "", <<>>))
     /\ UNCHANGED flip
  \/ /\ outcome = "notfound"
     /\ FlipLookup(externalId) # {}
     /\ Fails
     /\ calls' = Append(calls, Call("lookup", externalId, FALSE, "", <<>>))
     /\ UNCHANGED flip
  \/ \E flipRequest \in FlipLookup(externalId) :
       IF flipRequest.status # "PENDING"
       THEN /\ outcome = "settled"
            /\ Succeeds
            /\ calls' = Append(calls,
                 Call("lookup", externalId, TRUE, flipRequest.status, <<>>))
            /\ UNCHANGED flip
       ELSE \/ /\ outcome = "decided"
               /\ Succeeds
               /\ flip' = FlipDecide(externalId, status)
               /\ calls' = calls \o
                    <<Call("lookup", externalId, TRUE, flipRequest.status, <<>>),
                      DecisionCall(status, approverId, externalId, TRUE)>>
            \/ /\ outcome = "threw"
               /\ Fails
               /\ calls' = calls \o
                    <<Call("lookup", externalId, TRUE, flipRequest.status, <<>>),
                      DecisionCall(status, approverId, externalId, FALSE)>>
               /\ UNCHANGED flip

Outcomes == {"notfound", "settled", "decided", "threw"}

\* getAllMappings; a throw here is answered with 500.
StatusBegin ==
  /\ handler = "status" /\ pc = "begin"
  /\ \/ Succeeds /\ pc' = "fetch" /\ UNCHANGED result
     \/ /\ Fails
        /\ pc' = "done"
        /\ result' = [NoResult EXCEPT !.status = 500]
  /\ UNCHANGED <<flip, mappingIdx, build, errorCount, itemIdx, tally, calls>>
  /\ statusFrame

\* The next mapping, or the response after the last one.
StatusNextEmployee ==
  /\ mappingIdx' = mappingIdx + 1
  /\ itemIdx' = 1
  /\ pc' = IF mappingIdx = NumEmployees THEN "respond" ELSE "fetch"

\* The two fetches of one mapping: a throw of the first is caught per
\* employee and counted, a throw of the second leaves the list empty.
StatusFetch ==
  /\ handler = "status" /\ pc = "fetch"
  /\ LET e == mappings[mappingIdx].breatheEmployeeId
     IN \/ /\ Fails
           /\ errorCount' = errorCount + 1
           /\ StatusNextEmployee
           /\ UNCHANGED build
        \/ /\ \/ /\ Succeeds
                 /\ build' = [build EXCEPT !.leaveRequests = leaveRequests[e],
                                           !.matchIdx = 1, !.approvedViaLR = FALSE]
              \/ /\ Fails
                 /\ build' = [build EXCEPT !.leaveRequests = <<>>,
                                           !.matchIdx = 1, !.approvedViaLR = FALSE]
           /\ pc' = "step1a"
           /\ itemIdx' = 1
           /\ UNCHANGED <<mappingIdx, errorCount>>
  /\ UNCHANGED <<flip, tally, calls, result>>
  /\ statusFrame

\* Step 1 goes to the next absence.
StatusNextAbsence(locals) ==
  /\ itemIdx' = itemIdx + 1
  /\ pc' = "step1a"
  /\ build' = [locals EXCEPT !.matchIdx = 1, !.approvedViaLR = FALSE]

\* Step 1 a): one iteration of the loop over matchingLRs of the current
\* absence (or the step to the next absence, to b), or to step 2).
StatusStep1LR ==
  /\ handler = "status" /\ pc = "step1a"
  /\ LET mapping == mappings[mappingIdx]
         abs     == absences[mapping.breatheEmployeeId]
     IN IF itemIdx > Len(abs)
        THEN /\ pc' = "step2" /\ itemIdx' = 1
             /\ Succeeds
             /\ UNCHANGED <<flip, build, tally, calls>>
        ELSE LET absence     == abs[itemIdx]
                 matchingLRs == matchingLRsOf(build.leaveRequests, absence)
             IN IF absence.cancelled
                THEN /\ StatusNextAbsence(build)
                     /\ Succeeds
                     /\ UNCHANGED <<flip, tally, calls>>
                ELSE IF build.matchIdx > Len(matchingLRs)
                THEN /\ pc' = "step1b"
                     /\ Succeeds
                     /\ UNCHANGED <<flip, build, itemIdx, tally, calls>>
                ELSE LET externalId == String(matchingLRs[build.matchIdx].id)
                         next       == [build EXCEPT !.matchIdx = @ + 1]
                     IN IF Processed(build.processedExternalIds, externalId)
                        THEN /\ build' = next
                             /\ Succeeds
                             /\ UNCHANGED <<flip, itemIdx, pc, tally, calls>>
                        ELSE \E outcome \in Outcomes :
                               /\ TryDecide(externalId, "APPROVED",
                                            mapping.flipUserId, outcome)
                               /\ IF outcome = "decided"
                                    THEN /\ tally' = [tally EXCEPT !.approved = @ + 1]
                                         /\ StatusNextAbsence(
                                              [build EXCEPT !.processedExternalIds =
                                                              @ \cup {externalId}])
                                    ELSE /\ build' = next
                                         /\ UNCHANGED <<itemIdx, pc, tally>>
  /\ UNCHANGED <<mappingIdx, errorCount, result>>
  /\ statusFrame

\* Step 1 b): the absence's own id, when no leave request led to an approval.
StatusStep1Fallback ==
  /\ handler = "status" /\ pc = "step1b"
  /\ LET mapping           == mappings[mappingIdx]
         absence           == absences[mapping.breatheEmployeeId][itemIdx]
         absenceExternalId == String(absence.id)
     IN IF Processed(build.processedExternalIds, absenceExternalId)
        THEN /\ StatusNextAbsence(build)
             /\ Succeeds
             /\ UNCHANGED <<flip, tally, calls>>
        ELSE \E outcome \in Outcomes :
               /\ TryDecide(absenceExternalId, "APPROVED", mapping.flipUserId, outcome)
               /\ IF outcome = "decided"
                    THEN /\ tally' = [tally EXCEPT !.approved = @ + 1]
                         /\ StatusNextAbsence(
                              [build EXCEPT !.processedExternalIds =
                                              @ \cup {absenceExternalId}])
                    ELSE /\ StatusNextAbsence(build)
                         /\ UNCHANGED tally
  /\ UNCHANGED <<mappingIdx, errorCount, result>>
  /\ statusFrame

\* Step 2: one iteration of the loop over the leave requests (rejections).
StatusStep2 ==
  /\ handler = "status" /\ pc = "step2"
  /\ LET mapping == mappings[mappingIdx]
         lrs     == build.leaveRequests
     IN IF itemIdx > Len(lrs)
        THEN /\ pc' = "step3" /\ itemIdx' = 1
             /\ Succeeds
             /\ UNCHANGED <<flip, build, tally, calls>>
        ELSE LET lr         == lrs[itemIdx]
                 externalId == String(lr.id)
             IN /\ itemIdx' = itemIdx + 1
                /\ UNCHANGED pc
                /\ IF ~isRejected(lr)
                   THEN /\ tally' = IF lr.status = "pending"
                                      THEN [tally EXCEPT !.stillPending = @ + 1]
                                      ELSE tally
                        /\ Succeeds
                        /\ UNCHANGED <<flip, build, calls>>
                   ELSE IF Processed(build.processedExternalIds, externalId)
                   THEN /\ Succeeds
                        /\ UNCHANGED <<flip, build, tally, calls>>
                   ELSE \E outcome \in Outcomes :
                          /\ TryDecide(externalId, "REJECTED", mapping.flipUserId,
                                       outcome)
                          /\ IF outcome = "decided"
                               THEN /\ tally' = [tally EXCEPT !.rejected = @ + 1]
                                    /\ build' = [build EXCEPT !.processedExternalIds =
                                                                @ \cup {externalId}]
                               ELSE UNCHANGED <<build, tally>>
  /\ UNCHANGED <<mappingIdx, errorCount, result>>
  /\ statusFrame

\* Step 3: one iteration of the loop over the leave requests (approved by
\* status); after the last one the next mapping follows.
StatusStep3 ==
  /\ handler = "status" /\ pc = "step3"
  /\ LET mapping == mappings[mappingIdx]
         lrs     == build.leaveRequests
     IN IF itemIdx > Len(lrs)
        THEN /\ StatusNextEmployee
             /\ Succeeds
             /\ UNCHANGED <<flip, build, tally, calls>>
        ELSE LET lr         == lrs[itemIdx]
                 externalId == String(lr.id)
             IN /\ itemIdx' = itemIdx + 1
                /\ UNCHANGED <<pc, mappingIdx>>
                /\ IF ~isApproved(lr)
                        \/ Processed(build.processedExternalIds, externalId)
                   THEN /\ Succeeds
                        /\ UNCHANGED <<flip, build, tally, calls>>
                   ELSE \E outcome \in Outcomes :
                          /\ TryDecide(externalId, "APPROVED", mapping.flipUserId,
                                       outcome)
                          /\ IF outcome = "decided"
                               THEN /\ tally' = [tally EXCEPT !.approved = @ + 1]
                                    /\ build' = [build EXCEPT !.processedExternalIds =
                                                                @ \cup {externalId}]
                               ELSE UNCHANGED <<build, tally>>
  /\ UNCHANGED <<errorCount, result>>
  /\ statusFrame

\* The 200 response with the counters.
StatusRespond ==
  /\ handler = "status" /\ pc = "respond"
  /\ result' = [NoResult EXCEPT !.status = 200, !.message = "ok",
                                !.approved = tally.approved,
                                !.rejected = tally.rejected,
                                !.errors = errorCount]
  /\ pc' = "done"
  /\ UNCHANGED <<flip, mappingIdx, build, errorCount, itemIdx, tally, calls, faults>>
  /\ statusFrame

NextStatus ==
  \/ StatusBegin
  \/ StatusFetch
  \/ StatusStep1LR
  \/ StatusStep1Fallback
  \/ StatusStep2
  \/ StatusStep3
  \/ StatusRespond

SpecStatus == InitStatus /\ [][NextStatus]_vars

\* ----------------------------------- webhook: /api/webhooks/absence-request
\* The webhook handler, one invocation on a batched payload.  In this
\* specification tally holds the invocation (its position pc, the payload's
\* items, the index idx of the item in work, the locals employee,
\* leaveRequestId and matchingAbsence, the response status), Flip's requests
\* carry the id Flip gave them, a call of the log names the request it is
\* about, and an external id in the payload is the id of a leave request HR
\* has.
Stranger == FlipUser(NumEmployees + 1)

\* The id Flip gave a request; requests written by a sync session show none.
RequestId(r) == IF "id" \in DOMAIN r THEN r.id ELSE <<>>

FlipRequestId(k) == <<"req", k>>

\* userMapping.getBreatheEmployeeId, 0 for null.
breatheEmployeeIdOf(userId) ==
  IF \E e \in Employees : mappings[e].flipUserId = userId
    THEN CHOOSE e \in Employees : mappings[e].flipUserId = userId
    ELSE 0

DigitValue(c) == CHOOSE d \in 0..9 : Digit(d) = c

\* parseInt(externalId, 10) of a text of digits.
RECURSIVE ParseInt(_)
ParseInt(t) ==
  IF Len(t) = 1 THEN DigitValue(t[1])
  ELSE 10 * ParseInt(SubSeq(t, 1, Len(t) - 1)) + DigitValue(t[Len(t)])

NoWebhook ==
  [pc |-> "idle", items |-> <<>>, idx |-> 1, employee |-> 0, leaveRequestId |-> 0,
   matchingAbsence |-> 0, status |-> 0]

WebhookCall(op, request, arg, ok) ==
  [op |-> op, request |-> request, arg |-> arg, ok |-> ok]

\* setAbsenceRequestError / patchAbsenceRequestExternalId, accepted.
FlipSetError(id) ==
  {IF RequestId(r) = id THEN [r EXCEPT !.status = "ERROR"] ELSE r : r \in flip}

FlipPatch_Approves(id, externalId) ==
  {IF RequestId(r) = id
     THEN [r EXCEPT !.external_id = externalId, !.status = "APPROVED"] ELSE r :
   r \in flip}

FlipPatch(id, externalId) ==
  {IF RequestId(r) = id THEN [r EXCEPT !.external_id = externalId] ELSE r : r \in flip}

FlipHas(id) == \E r \in flip : RequestId(r) = id

\* The events Flip can send about its request k.
WebhookDates == {<<>>} \cup {LocalDateTime(d) : d \in UnifyDates}

WebhookEvents(k) ==
  {[type |-> "hr.absence.requested",
    data |-> [id |-> FlipRequestId(k), absentee |-> u, external_id |-> <<>>,
              starts_from |-> [date |-> LocalDateTime(d), type |-> "undefined"],
              ends_at |-> [date |-> LocalDateTime(d), type |-> "undefined"]]] :
     u \in {FlipUser(1), Stranger}, d \in UnifyDates}
  \cup
  {[type |-> "hr.absence.cancelled",
    data |-> [id |-> FlipRequestId(k), absentee |-> u, external_id |-> x,
              starts_from |-> [date |-> t, type |-> "undefined"],
              ends_at |-> [date |-> t, type |-> "undefined"]]] :
     u \in {FlipUser(1), Stranger}, x \in {<<>>, String(1)}, t \in WebhookDates}
  \cup
  {[type |-> "hr.other",
    data |-> [id |-> FlipRequestId(k), absentee |-> FlipUser(1), external_id |-> <<>>,
              starts_from |-> [date |-> <<>>, type |-> "undefined"],
              ends_at |-> [date |-> <<>>, type |-> "undefined"]]]}

Payloads ==
  {items \in UNION {[1..n -> UNION {WebhookEvents(k) : k \in 1..MaxLen}] :
                      n \in 1..MaxLen} :
     \A k \in 1..Len(items) : items[k] \in WebhookEvents(k)}

\* Flip's request an event is about.
RequestOf(event) ==
  [id |-> event.data.id, external_id |-> event.data.external_id,
   status |-> "PENDING", absentee |-> event.data.absentee]

WebhookRequestLists ==
  {<<>>} \cup {<<[id |-> 1, start_date |-> 1, end_date |-> 1, status |-> st,
                  action |-> "request"]>> : st \in {"pending", "approved"}}

WebhookAbsenceRecords ==
  {a \in [id : 2..(MaxLen + 1), start_date : UnifyDates, end_date : UnifyDates,
          cancelled : BOOLEAN] : a.start_date = a.end_date}

InitWebhook ==
  /\ \E lrs \in WebhookRequestLists :
       leaveRequests = [e \in Employees |-> IF e = 1 THEN lrs ELSE <<>>]
  /\ \E abs \in ListsOf(WebhookAbsenceRecords) :
       absences = [e \in Employees |-> IF e = 1 THEN abs ELSE <<>>]
  /\ \E items \in Payloads :
       /\ \A k \in 1..Len(items) :
            items[k].data.external_id # <<>> => leaveRequests[1] # <<>>
       /\ tally = [NoWebhook EXCEPT !.pc = "item", !.items = items]
       /\ flip = {RequestOf(items[k]) : k \in 1..Len(items)}
  /\ sessions = <<>>
  /\ handler = "webhook"
  /\ pc = "idle"
  /\ mappingIdx = 1
  /\ build = EmptyBuild
  /\ errorCount = 0
  /\ notif = NoNotif
  /\ itemIdx = 1
  /\ syncId = 0
  /\ thrown = ""
  /\ managerCache = {}
  /\ result = NoResult
  /\ calls = <<>>
  /\ runs = 1
  /\ faults = 0
  /\ flipAtStart = flip
  /\ lastRun = NoRun

webhookFrame ==
  UNCHANGED <<sessions, handler, pc, syncVars, managerCache, result, histVars>>

\* The item in work and its data.
WebhookItem == tally.items[tally.idx]

\* The handler goes to the next item of the batch.
NextItem(w) == [w EXCEPT !.pc = "item", !.idx = @ + 1, !.employee = 0,
                         !.leaveRequestId = 0, !.matchingAbsence = 0]

\* An error reaches the outer catch.
Throw(w) == [w EXCEPT !.pc = "catch"]

\* handleAbsenceCreated, step 1: the mapping lookup; an unmapped user's
\* request is put in error status and the handler throws.
WebhookCreatedMap ==
  /\ tally.pc = "item" /\ tally.idx <= Len(tally.items)
  /\ WebhookItem.type = "hr.absence.requested"
  /\ LET data              == WebhookItem.data
         breatheEmployeeId == breatheEmployeeIdOf(data.absentee)
     IN \/ /\ Fails
           /\ tally' = Throw(tally)
           /\ UNCHANGED <<flip, calls>>
        \/ /\ breatheEmployeeId # 0
           /\ Succeeds
           /\ tally' = [tally EXCEPT !.pc = "create", !.employee = breatheEmployeeId]
           /\ UNCHANGED <<flip, calls>>
        \/ /\ breatheEmployeeId = 0
           /\ tally' = Throw(tally)
           /\ \/ /\ FlipHas(data.id)
                 /\ Succeeds
                 /\ flip' = FlipSetError(data.id)
                 /\ calls' = Append(calls, WebhookCall("setError", data.id, <<>>, TRUE))
              \/ /\ Fails
                 /\ calls' = Append(calls, WebhookCall("setError", data.id, <<>>, FALSE))
                 /\ UNCHANGED flip
  /\ UNCHANGED <<hrVars>>
  /\ webhookFrame

\* handleAbsenceCreated, step 5: createLeaveRequest.
WebhookCreatedCreate ==
  /\ tally.pc = "create"
  /\ LET data == WebhookItem.data
         body == createLeaveRequestBody(data)
         id   == NextRequestId
     IN \/ /\ Succeeds
           /\ leaveRequests' = [leaveRequests EXCEPT ![tally.employee] =
                Append(@, [id |-> id, start_date |-> body.start_date,
                           end_date |-> body.end_date, status |-> "pending",
                           action |-> "request"])]
           /\ tally' = [tally EXCEPT !.pc = "patch", !.leaveRequestId = id]
           /\ calls' = Append(calls,
                WebhookCall("createLeaveRequest", data.id, String(id), TRUE))
        \/ /\ Fails
           /\ tally' = Throw(tally)
           /\ calls' = Append(calls,
                WebhookCall("createLeaveRequest", data.id, <<>>, FALSE))
           /\ UNCHANGED leaveRequests
  /\ UNCHANGED <<absences, flip>>
  /\ webhookFrame

\* handleAbsenceCreated, step 6: patchAbsenceRequestExternalId.
WebhookCreatedPatch ==
  /\ tally.pc = "patch"
  /\ LET data       == WebhookItem.data
         externalId == String(tally.leaveRequestId)
     IN \/ /\ FlipHas(data.id)
           /\ Succeeds
           /\ flip' = FlipPatch(data.id, externalId)
           /\ tally' = NextItem(tally)
           /\ calls' = Append(calls,
                WebhookCall("patchExternalId", data.id, externalId, TRUE))
        \/ /\ IF FlipHas(data.id) THEN Fails ELSE Succeeds
           /\ tally' = Throw(tally)
           /\ calls' = Append(calls,
                WebhookCall("patchExternalId", data.id, externalId, FALSE))
           /\ UNCHANGED flip
  /\ UNCHANGED hrVars
  /\ webhookFrame

\* HR accepts the cancellation of a leave request that is still pending.
Cancellable(id) ==
  \E e \in Employees : \E i \in 1..Len(leaveRequests[e]) :
    leaveRequests[e][i].id = id /\ leaveRequests[e][i].status = "pending"

\* handleAbsenceCancelled up to its step 1: cancelLeaveRequest.
WebhookCancelLeaveRequest ==
  /\ tally.pc = "item" /\ tally.idx <= Len(tally.items)
  /\ WebhookItem.type = "hr.absence.cancelled"
  /\ LET data       == WebhookItem.data
         externalId == data.external_id
     IN IF externalId = <<>>
        THEN /\ Succeeds
             /\ tally' = NextItem(tally)
             /\ UNCHANGED <<leaveRequests, calls>>
        ELSE LET breatheLeaveRequestId == ParseInt(externalId)
             IN \/ /\ Cancellable(breatheLeaveRequestId)
                   /\ Succeeds
                   /\ leaveRequests' =
                        [e \in Employees |->
                           [i \in 1..Len(leaveRequests[e]) |->
                              IF leaveRequests[e][i].id = breatheLeaveRequestId
                                THEN [leaveRequests[e][i] EXCEPT !.status = "cancelled"]
                                ELSE leaveRequests[e][i]]]
                   /\ tally' = NextItem(tally)
                   /\ calls' = Append(calls,
                        WebhookCall("cancelLeaveRequest", data.id, externalId, TRUE))
                \/ /\ IF Cancellable(breatheLeaveRequestId) THEN Fails ELSE Succeeds
                   /\ tally' = [tally EXCEPT !.pc = "find",
                                             !.leaveRequestId = breatheLeaveRequestId]
                   /\ calls' = Append(calls,
                        WebhookCall("cancelLeaveRequest", data.id, externalId, FALSE))
                   /\ UNCHANGED leaveRequests
  /\ UNCHANGED <<absences, flip>>
  /\ webhookFrame

findAbsence_AnyDates(abs, startDate, endDate) ==
  LET hits == {i \in 1..Len(abs) : ~abs[i].cancelled}
  IN IF hits = {} THEN 0
     ELSE abs[CHOOSE i \in hits : \A j \in hits : i <= j].id

\* absences.find(...): the id of the first absence with these dates that is
\* not cancelled, 0 for undefined.
findAbsence(abs, startDate, endDate) ==
  LET hits == {i \in 1..Len(abs) : /\ abs[i].start_date = startDate
                                   /\ abs[i].end_date = endDate
                                   /\ ~abs[i].cancelled}
  IN IF hits = {} THEN 0
     ELSE abs[CHOOSE i \in hits : \A j \in hits : i <= j].id

\* getLeaveRequest: the leave requests HR has with this id.
LeaveRequestsById(id) ==
  UNION {{leaveRequests[e][i] : i \in {j \in 1..Len(leaveRequests[e]) :
                                         leaveRequests[e][j].id = id}} :
         e \in Employees}

\* handleAbsenceCancelled, step 2 up to the choice of matchingAbsence.
WebhookCancelFind ==
  /\ tally.pc = "find"
  /\ LET data              == WebhookItem.data
         breatheEmployeeId == breatheEmployeeIdOf(data.absentee)
         startDate         == DatePart(data.starts_from.date)
         endDate           == DatePart(data.ends_at.date)
     IN IF breatheEmployeeId = 0
        THEN Succeeds /\ tally' = Throw(tally)
        ELSE LET abs    == absences[breatheEmployeeId]
                 byData == findAbsence(abs, startDate, endDate)
             IN \/ \* the mapping lookup or getAllEmployeeAbsences throws
                   /\ Fails
                   /\ tally' = Throw(tally)
                \/ /\ byData # 0
                   /\ Succeeds
                   /\ tally' = [tally EXCEPT !.pc = "cancel", !.matchingAbsence = byData]
                \/ /\ byData = 0 /\ tally.leaveRequestId # 0
                   /\ \/ /\ Succeeds
                         /\ \/ \E lr \in LeaveRequestsById(tally.leaveRequestId) :
                                 tally' = [tally EXCEPT !.pc = "cancel",
                                             !.matchingAbsence =
                                                findAbsence(abs, lr.start_date,
                                                            lr.end_date)]
                            \/ /\ LeaveRequestsById(tally.leaveRequestId) = {}
                               /\ tally' = [tally EXCEPT !.pc = "cancel"]
                      \/ \* getLeaveRequest throws: logged only
                         /\ Fails
                         /\ tally' = [tally EXCEPT !.pc = "cancel"]
                \/ /\ byData = 0 /\ tally.leaveRequestId = 0
                   /\ Succeeds
                   /\ tally' = [tally EXCEPT !.pc = "cancel"]
  /\ UNCHANGED <<hrVars, flip, calls>>
  /\ webhookFrame

\* handleAbsenceCancelled, the end: cancelAbsence, or the throw when no
\* absence matches.
WebhookCancelAbsence ==
  /\ tally.pc = "cancel"
  /\ LET data == WebhookItem.data
         e    == breatheEmployeeIdOf(data.absentee)
     IN IF tally.matchingAbsence = 0
        THEN /\ Succeeds
             /\ tally' = Throw(tally)
             /\ UNCHANGED <<absences, calls>>
        ELSE \/ /\ Succeeds
                /\ absences' = [absences EXCEPT ![e] =
                     [i \in 1..Len(@) |->
                        IF @[i].id = tally.matchingAbsence
                          THEN [@[i] EXCEPT !.cancelled = TRUE] ELSE @[i]]]
                /\ tally' = NextItem(tally)
                /\ calls' = Append(calls,
                     WebhookCall("cancelAbsence", data.id,
                                 String(tally.matchingAbsence), TRUE))
             \/ /\ Fails
                /\ tally' = Throw(tally)
                /\ calls' = Append(calls,
                     WebhookCall("cancelAbsence", data.id,
                                 String(tally.matchingAbsence), FALSE))
                /\ UNCHANGED absences
  /\ UNCHANGED <<leaveRequests, flip>>
  /\ webhookFrame

\* The default case of the switch.
WebhookIgnored ==
  /\ tally.pc = "item" /\ tally.idx <= Len(tally.items)
  /\ WebhookItem.type \notin {"hr.absence.requested", "hr.absence.cancelled"}
  /\ tally' = NextItem(tally)
  /\ UNCHANGED <<hrVars, flip, calls, faults>>
  /\ webhookFrame

\* After the last item: 200.
WebhookRespond ==
  /\ tally.pc = "item" /\ tally.idx > Len(tally.items)
  /\ tally' = [tally EXCEPT !.pc = "done", !.status = 200]
  /\ UNCHANGED <<hrVars, flip, calls, faults>>
  /\ webhookFrame

\* The outer catch: the request of req.body.items[0] is put in error
\* status (a failure of that call is logged only), 500.
WebhookCatch ==
  /\ tally.pc = "catch"
  /\ LET firstItem == tally.items[1].data
     IN \/ /\ FlipHas(firstItem.id)
           /\ Succeeds
           /\ flip' = FlipSetError(firstItem.id)
           /\ calls' = Append(calls, WebhookCall("setError", firstItem.id, <<>>, TRUE))
        \/ /\ IF FlipHas(firstItem.id) THEN Fails ELSE Succeeds
           /\ calls' = Append(calls, WebhookCall("setError", firstItem.id, <<>>, FALSE))
           /\ UNCHANGED flip
  /\ tally' = [tally EXCEPT !.pc = "done", !.status = 500]
  /\ UNCHANGED hrVars
  /\ webhookFrame

NextWebhook ==
  \/ WebhookCreatedMap
  \/ WebhookCreatedCreate
  \/ WebhookCreatedPatch
  \/ WebhookCancelLeaveRequest
  \/ WebhookCancelFind
  \/ WebhookCancelAbsence
  \/ WebhookIgnored
  \/ WebhookRespond
  \/ WebhookCatch

SpecWebhook == InitWebhook /\ [][NextWebhook]_vars

\* ------------------------------------ a created event during a full sync run
\* The webhook handler and the full sync are separate invocations; nothing
\* orders them.  Here a full sync run (from its item-building loop on) and
\* the handling of one created event of the first user take their steps in
\* any order.
RaceEvents == {ev \in WebhookEvents(1) : /\ ev.type = "hr.absence.requested"
                                          /\ ev.data.absentee = FlipUser(1)}

InitRace ==
  /\ \E lrs \in {<<>>, <<[id |-> 1, start_date |-> 1, end_date |-> 1,
                          status |-> "pending", action |-> "request"]>>} :
       leaveRequests = [e \in Employees |-> IF e = 1 THEN lrs ELSE <<>>]
  /\ \E abs \in ListsOf(WebhookAbsenceRecords) :
       absences = [e \in Employees |-> IF e = 1 THEN abs ELSE <<>>]
  /\ \E ev \in RaceEvents :
       /\ tally = [NoWebhook EXCEPT !.pc = "item", !.items = <<ev>>]
       /\ flip = {RequestOf(ev)}
                   \cup {[external_id |-> String(leaveRequests[1][i].id),
                          status |-> "PENDING", absentee |-> FlipUser(1)] :
                           i \in 1..Len(leaveRequests[1])}
  /\ sessions = <<>>
  /\ handler = "sync"
  /\ pc = "build"
  /\ mappingIdx = 1
  /\ build = EmptyBuild
  /\ errorCount = 0
  /\ notif = NoNotif
  /\ itemIdx = 1
  /\ syncId = 0
  /\ thrown = ""
  /\ managerCache = {}
  /\ result = NoResult
  /\ calls = <<>>
  /\ runs = 1
  /\ faults = 0
  /\ flipAtStart = flip
  /\ lastRun = NoRun

NextRace ==
  \/ SyncBuildEmployee
  \/ SyncNotifyItem
  \/ SyncStart
  \/ SyncPush
  \/ SyncComplete
  \/ SyncCatch
  \/ WebhookCreatedMap
  \/ WebhookCreatedCreate
  \/ WebhookCreatedPatch
  \/ WebhookRespond
  \/ WebhookCatch

SpecRace == InitRace /\ [][NextRace]_vars

\* ---------------------------------------------------------------------------
\* Two runs at once, at the granularity of their awaits.  Neither handler
\* takes a lock: between a run's lookup of a Flip request and its approve or
\* reject call the other run may take any of its own steps.  Each run here
\* is the notification trigger of a full sync (handler "sync") or the item
\* loop of the approval check (handler "check") over employee 1; handler, pc,
\* itemIdx and build are functions of the invocation, build[p] holding the
\* run's decided items and the Flip request its lookup returned.
\* ---------------------------------------------------------------------------
DecidedRequestRecords ==
  {r \in UnifyRequestRecords :
     r.status \in {"approved", "denied"} /\ r.start_date = r.end_date}

\* The decided items of a run: for a full sync the APPROVED and REJECTED sync
\* items that carry an external id, for the approval check the approved and
\* denied leave requests.
DecidedItems(kind) ==
  IF kind = "sync"
    THEN LET items == BuildEmployee(mappings[1], absences[1], leaveRequests[1],
                                    EmptyBuild).syncItems
             keep(item) == /\ item.external_id # <<>>
                           /\ item.status \in {"APPROVED", "REJECTED"}
             kept == SelectSeq(items, keep)
         IN [i \in 1..Len(kept) |->
               [external_id |-> kept[i].external_id, status |-> kept[i].status]]
    ELSE [i \in 1..Len(leaveRequests[1]) |->
            [external_id |-> String(leaveRequests[1][i].id),
             status |-> IF leaveRequests[1][i].status = "approved"
                          THEN "APPROVED" ELSE "REJECTED"]]

InitInterleave ==
  /\ \E lrs \in ListsOf(DecidedRequestRecords) :
       leaveRequests = [e \in Employees |-> IF e = 1 THEN lrs ELSE <<>>]
  /\ \E abs \in ListsOf({a \in WebhookAbsenceRecords : ~a.cancelled}) :
       absences = [e \in Employees |-> IF e = 1 THEN abs ELSE <<>>]
  /\ flip = {[external_id |-> String(leaveRequests[1][i].id),
              status |-> "PENDING", absentee |-> FlipUser(1)] :
               i \in 1..Len(leaveRequests[1])}
  /\ sessions = <<>>
  /\ handler \in [Invocations -> {"sync", "check"}]
  /\ build = [p \in Invocations |->
                [items |-> DecidedItems(handler[p]), flipRequest |-> <<>>]]
  /\ itemIdx = [p \in Invocations |-> 1]
  /\ pc = [p \in Invocations |->
             IF build[p].items = <<>> THEN "done" ELSE "lookup"]
  /\ mappingIdx = 1
  /\ errorCount = 0
  /\ notif = NoNotif
  /\ syncId = 0
  /\ thrown = ""
  /\ tally = NoTally
  /\ managerCache = {}
  /\ result = NoResult
  /\ calls = <<>>
  /\ runs = 1
  /\ faults = 0
  /\ flipAtStart = flip
  /\ lastRun = NoRun

interleaveFrame ==
  UNCHANGED <<hrVars, sessions, handler, mappingIdx, errorCount, notif, syncId,
              thrown, checkVars, result, histVars, faults>>

\* The run goes on to its next decided item, or is through with them.
NextDecided(p) ==
  /\ itemIdx' = [itemIdx EXCEPT ![p] = @ + 1]
  /\ pc' = [pc EXCEPT ![p] = IF itemIdx[p] < Len(build[p].items)
                               THEN "lookup" ELSE "done"]

\* getAbsenceRequestByExternalId: a request that is missing or is no longer
\* PENDING ends the item; a PENDING one is kept for the decision.
RunLookup(p) ==
  /\ pc[p] = "lookup"
  /\ LET ext == build[p].items[itemIdx[p]].external_id
     IN \/ /\ FlipLookup(ext) = {}
           /\ calls' = Append(calls, Call("lookup", ext, FALSE, "", <<>>))
           /\ NextDecided(p)
           /\ UNCHANGED build
        \/ \E flipRequest \in FlipLookup(ext) :
             /\ calls' = Append(calls,
                  Call("lookup", ext, TRUE, flipRequest.status, <<>>))
             /\ IF flipRequest.status = "PENDING"
                  THEN /\ build' = [build EXCEPT ![p].flipRequest = flipRequest]
                       /\ pc' = [pc EXCEPT ![p] = "decide"]
                       /\ UNCHANGED itemIdx
                  ELSE NextDecided(p) /\ UNCHANGED build
  /\ UNCHANGED flip
  /\ interleaveFrame

\* approveAbsenceRequest / rejectAbsenceRequest, on the strength of the
\* status the run's own lookup returned.  Flip decides a request that is
\* still PENDING; a call for one decided in the meantime it may refuse.
RunDecide(p) ==
  /\ pc[p] = "decide"
  /\ LET item == build[p].items[itemIdx[p]]
         ext  == item.external_id
     IN \E getUserOk \in BOOLEAN, ok \in BOOLEAN :
          LET approverId == IF handler[p] = "sync"
                              THEN mappings[1].flipUserId
                              ELSE resolveApprover(mappings[1].flipUserId, {},
                                                   getUserOk)
          IN /\ handler[p] = "sync" => getUserOk
             /\ (\E r \in FlipLookup(ext) : r.status = "PENDING") => ok
             /\ flip' = FlipDecide(ext, item.status)
             /\ calls' = Append(calls,
                  DecisionCall(item.status, approverId, ext, ok))
             /\ build' = [build EXCEPT ![p].flipRequest = <<>>]
             /\ IF ok \/ handler[p] = "sync"
                  THEN NextDecided(p)
                  ELSE \* the approval check gives the employee up
                       /\ pc' = [pc EXCEPT ![p] = "done"]
                       /\ UNCHANGED itemIdx
  /\ interleaveFrame

NextInterleave ==
  \/ \E p \in Invocations : RunLookup(p)
  \/ \E p \in Invocations : RunDecide(p)

SpecInterleave == InitInterleave /\ [][NextInterleave]_vars

\* ---------------------------------------------------------------------------
\* The sync-all orchestrator (POST or GET /api/sync/all).  It calls the step
\* endpoints over HTTP, each fetch awaited inside its own try/catch.  The
\* repository holds two versions of the handler: four steps (with the
\* approval-status check) and three steps (without).  Here handler is "all",
\* build holds the invocation's locals (version, method, results), itemIdx
\* the step it is at, and tally the state of each step endpoint's own
\* invocation: "idle", "running" or "finished".  The log calls records
\* "invoke", "finish" and "fetchFailed" events with the step as arg.
\* ---------------------------------------------------------------------------
StepNames == {"policies", "balances", "approval_status", "absences"}

StepsOf(version) ==
  IF version = 4
    THEN <<"policies", "balances", "approval_status", "absences">>
    ELSE <<"policies", "balances", "absences">>

Methods == {"POST", "GET", "PUT"}

AllEvent(op, step) == Call(op, step, op # "fetchFailed", "", <<>>)

InitAll ==
  /\ leaveRequests = [e \in Employees |-> <<>>]
  /\ absences = [e \in Employees |-> <<>>]
  /\ flip = {}
  /\ sessions = <<>>
  /\ handler = "all"
  /\ pc = "method"
  /\ \E version \in {3, 4}, method \in Methods :
       build = [version |-> version, method |-> method,
                results |-> [s \in StepNames |-> "unset"]]
  /\ itemIdx = 1
  /\ tally = [s \in StepNames |-> "idle"]
  /\ mappingIdx = 1
  /\ errorCount = 0
  /\ notif = NoNotif
  /\ syncId = 0
  /\ thrown = ""
  /\ managerCache = {}
  /\ result = NoResult
  /\ calls = <<>>
  /\ runs = 1
  /\ faults = 0
  /\ flipAtStart = {}
  /\ lastRun = NoRun

allFrame ==
  UNCHANGED <<hrVars, flipVars, handler, mappingIdx, errorCount, notif, syncId,
              thrown, managerCache, histVars, faults>>

\* The step after the current one, or the response when there is none.
AfterStep ==
  /\ itemIdx' = itemIdx + 1
  /\ pc' = IF itemIdx < Len(StepsOf(build.version)) THEN "step" ELSE "respond"

\* Any method but POST and GET is answered 405 and no step is invoked.
AllMethod ==
  /\ handler = "all" /\ pc = "method"
  /\ IF build.method \notin {"POST", "GET"}
       THEN /\ pc' = "done"
            /\ result' = [NoResult EXCEPT !.status = 405,
                                          !.message = "Method not allowed"]
       ELSE /\ pc' = "step"
            /\ UNCHANGED result
  /\ UNCHANGED <<build, itemIdx, tally, calls>>
  /\ allFrame

\* fetch(`${baseUrl}/api/sync/<step>`, POST): the request is sent; it may or
\* may not reach the step's endpoint, which then runs as its own invocation.
AllInvoke ==
  /\ handler = "all" /\ pc = "step"
  /\ LET step == StepsOf(build.version)[itemIdx]
     IN /\ \E arrives \in BOOLEAN :
             tally' = [tally EXCEPT ![step] = IF arrives THEN "running" ELSE @]
        /\ calls' = Append(calls, AllEvent("invoke", step))
  /\ pc' = "await"
  /\ UNCHANGED <<build, itemIdx, result>>
  /\ allFrame

\* A step endpoint's invocation ends.  Nothing ties it to the orchestrator
\* but the HTTP exchange: it ends whether or not its caller still waits.
StepFinish ==
  /\ handler = "all"
  /\ \E step \in StepNames :
       /\ tally[step] = "running"
       /\ tally' = [tally EXCEPT ![step] = "finished"]
       /\ calls' = Append(calls, AllEvent("finish", step))
  /\ UNCHANGED <<pc, build, itemIdx, result>>
  /\ allFrame

\* The awaited response arrives: results.<step> = await res.json(), whatever
\* the status; a body that is not JSON makes json() throw into the catch.
AllReceive ==
  /\ handler = "all" /\ pc = "await"
  /\ LET step == StepsOf(build.version)[itemIdx]
     IN /\ tally[step] = "finished"
        /\ \E body \in {"ok", "error", "notJson"} :
             build' = [build EXCEPT !.results[step] =
                         IF body = "notJson" THEN "caught" ELSE body]
  /\ AfterStep
  /\ UNCHANGED <<tally, calls, result>>
  /\ allFrame

\* The awaited fetch rejects (the request was not delivered, the connection
\* was lost, the wait timed out): the catch records the error and the
\* handler goes on.  The step's invocation, if it began, is not stopped.
AllFetchFails ==
  /\ handler = "all" /\ pc = "await"
  /\ LET step == StepsOf(build.version)[itemIdx]
     IN /\ build' = [build EXCEPT !.results[step] = "caught"]
        /\ calls' = Append(calls, AllEvent("fetchFailed", step))
  /\ AfterStep
  /\ UNCHANGED <<tally, result>>
  /\ allFrame

\* res.status(200).json({ status: 'ok', timestamp, results })
AllRespond ==
  /\ handler = "all" /\ pc = "respond"
  /\ result' = [NoResult EXCEPT !.status = 200, !.message = "ok"]
  /\ pc' = "done"
  /\ UNCHANGED <<build, itemIdx, tally, calls>>
  /\ allFrame

NextAll ==
  \/ AllMethod
  \/ AllInvoke
  \/ StepFinish
  \/ AllReceive
  \/ AllFetchFails
  \/ AllRespond

SpecAll == InitAll /\ [][NextAll]_vars

\* ---------------------------------------------------------------------------
\* The approval check over fixed HR lists.  Every leave request has its
\* Flip request, PENDING; the ids of an employee's leave requests are its own
\* (employee e holds ids (e-1)*MaxLen+1 .. e*MaxLen, in list order), so a
\* call's external id names its employee.  The fault budget starts early
\* enough for one failure per employee in the runs together.
\* ---------------------------------------------------------------------------
AbandonFaultsStart == MaxFaults - NumEmployees

AbandonRequestLists(e) ==
  {l \in UNION {[1..k -> [id : 1..(NumEmployees * MaxLen), start_date : {1},
                          end_date : {1},
                          status : {"pending", "approved", "denied"},
                          action : {"request"}]] : k \in 0..MaxLen} :
     \A i \in 1..Len(l) : l[i].id = (e - 1) * MaxLen + i}

InitAbandon ==
  /\ leaveRequests \in [Employees -> UNION {AbandonRequestLists(e) : e \in Employees}]
  /\ \A e \in Employees : leaveRequests[e] \in AbandonRequestLists(e)
  /\ absences = [e \in Employees |-> <<>>]
  /\ flip = UNION {{[external_id |-> String(leaveRequests[e][i].id),
                     status |-> "PENDING", absentee |-> FlipUser(e)] :
                      i \in 1..Len(leaveRequests[e])} : e \in Employees}
  /\ sessions = <<>>
  /\ handler = "none"
  /\ pc = "idle"
  /\ mappingIdx = 1
  /\ build = EmptyBuild
  /\ errorCount = 0
  /\ notif = NoNotif
  /\ itemIdx = 1
  /\ syncId = 0
  /\ thrown = ""
  /\ tally = NoTally
  /\ managerCache = {}
  /\ result = NoResult
  /\ calls = <<>>
  /\ runs = 0
  /\ faults = AbandonFaultsStart
  /\ flipAtStart = {}
  /\ lastRun = NoRun

NextAbandon ==
  \/ CheckBegin
  \/ CheckFetch
  \/ CheckItem
  \/ CheckRespond
  \/ CheckCatch
  \/ Return

SpecAbandon == InitAbandon /\ [][NextAbandon]_vars

TypeOK ==
  /\ pc \in {"idle", "build", "notify", "start", "push", "complete", "catch",
            "fetch", "item", "respond", "done"}
  /\ handler \in {"none", "sync", "check"}

\* ======================================================================
\* Properties
\* ======================================================================
IsDecision(c) == c.op \in {"approve", "reject"}
CallIdx == 1..Len(calls)
Started == \E i \in CallIdx : calls[i].op = "start"

\* C1: in a full sync run, every APPROVED / REJECTED item is looked up before
\* the session is started; a lookup that finds the Flip request PENDING is
\* followed at once by the approve / reject call for that external id (approve
\* for an APPROVED item, reject for a REJECTED one); and no lookup, approve or
\* reject call follows the start call of the run.
C1_NotifyBeforeStart ==
  handler = "sync" =>
    /\ \A i \in CallIdx :
         (calls[i].op = "lookup" /\ calls[i].ok /\ calls[i].status = "PENDING") =>
           /\ i < Len(calls)
           /\ IsDecision(calls[i + 1])
           /\ calls[i + 1].arg = calls[i].arg
           /\ \E k \in 1..Len(build.syncItems) :
                /\ build.syncItems[k].external_id = calls[i].arg
                /\ DecisionOp(build.syncItems[k].status) = calls[i + 1].op
    /\ \A i \in CallIdx, j \in CallIdx :
         (i < j /\ calls[i].op = "start") =>
           (~IsDecision(calls[j]) /\ calls[j].op # "lookup")
    /\ Started =>
         \A k \in 1..Len(build.syncItems) :
           build.syncItems[k].status \in {"APPROVED", "REJECTED"} =>
             \E i \in CallIdx : /\ calls[i].op = "lookup"
                                /\ calls[i].arg = build.syncItems[k].external_id

\* C1 witness: an approve call was accepted, and later in the same run a batch
\* holding the item with that external id was pushed.
C1_Witness ==
  /\ handler = "sync"
  /\ \E i \in CallIdx, j \in CallIdx :
       /\ i < j
       /\ calls[i].op = "approve" /\ calls[i].ok
       /\ calls[j].op = "push" /\ calls[j].ok
       /\ \E k \in 1..Len(calls[j].items) :
            /\ calls[j].items[k].external_id = calls[i].arg
            /\ calls[j].items[k].status = "APPROVED"

\* C2: when the full sync runs twice in sequence with HR unchanged in between
\* and the first run completed its session, the second run issues no approve
\* and no reject call, and once the second run has completed its session the
\* requests Flip holds are the ones the first run left.
C2_FullSyncIdempotent ==
  (handler = "sync" /\ lastRun.handler = "sync" /\ lastRun.status = 200) =>
    /\ \A i \in CallIdx : ~IsDecision(calls[i])
    /\ (pc = "done" /\ result.status = 200) => flip = flipAtStart

\* C3: when the approval check runs twice in sequence with HR unchanged in
\* between, the second run issues no approve / reject call for an external id
\* whose call was accepted in the first run; in every run a decision call comes
\* only right after a lookup that found the request PENDING, and each request
\* found in another status is counted as skipped.
C3_ApprovalCheckIdempotent ==
  handler = "check" =>
    /\ lastRun.handler = "check" =>
         \A i \in CallIdx : IsDecision(calls[i]) => calls[i].arg \notin lastRun.decided
    /\ \A i \in CallIdx :
         IsDecision(calls[i]) =>
           /\ i > 1
           /\ calls[i - 1].op = "lookup" /\ calls[i - 1].ok
           /\ calls[i - 1].status = "PENDING"
           /\ calls[i - 1].arg = calls[i].arg
    /\ tally.skipped =
         Cardinality({i \in CallIdx : /\ calls[i].op = "lookup" /\ calls[i].ok
                                      /\ calls[i].status # "PENDING"})

\* C3 witness: the second approval check looks up an external id whose call
\* the first one saw accepted, finds it decided and counts it as skipped.
C3_Witness ==
  /\ handler = "check" /\ lastRun.handler = "check"
  /\ tally.skipped > 0
  /\ \E i \in CallIdx :
       /\ calls[i].op = "lookup" /\ calls[i].ok
       /\ calls[i].status \in {"APPROVED", "REJECTED"}
       /\ calls[i].arg \in lastRun.decided

\* An item that carries the dates of an HR record, for the Flip user of e.
ItemFor(item, e, rec) ==
  /\ item.absentee = FlipUser(e)
  /\ item.starts_from = LocalDateTime(rec.start_date)
  /\ item.ends_at = LocalDateTime(rec.end_date)

SameRange(x, y) == x.start_date = y.start_date /\ x.end_date = y.end_date

\* C4: when a full sync in which every fetch succeeded completes its session,
\* the items pushed in the session hold an item (of that employee, with those
\* dates) for every pending, approved or denied leave request and for every
\* absence that is not cancelled.
C4_FullReplaceComplete ==
  (handler = "sync" /\ pc = "done" /\ result.status = 200 /\ result.errors = 0) =>
    LET items == sessions[syncId].items
    IN \A e \in Employees :
         /\ \A i \in 1..Len(leaveRequests[e]) :
              leaveRequests[e][i].status
                  \in {"pending", "approved", "denied", "rejected", "declined"} =>
                \E k \in 1..Len(items) : ItemFor(items[k], e, leaveRequests[e][i])
         /\ \A i \in 1..Len(absences[e]) :
              ~absences[e][i].cancelled =>
                \E k \in 1..Len(items) : ItemFor(items[k], e, absences[e][i])

DistinctRanges(l) ==
  \A i \in 1..Len(l), j \in 1..Len(l) : (i # j) => ~SameRange(l[i], l[j])

\* The first employee's items have been built from fetched lists.
Unified == handler = "sync" /\ mappingIdx = 2 /\ errorCount = 0

\* C5: when the leave requests of an employee have pairwise distinct dates and
\* so have the absences, the item list built for the employee holds exactly
\* one item for the dates of every absence and of every pending, approved or
\* denied leave request.
C5_OneItemPerRange ==
  (Unified /\ DistinctRanges(leaveRequests[1]) /\ DistinctRanges(absences[1])) =>
    LET events == {absences[1][i] : i \in 1..Len(absences[1])} \cup
                  {lr \in {leaveRequests[1][i] : i \in 1..Len(leaveRequests[1])} :
                     lr.status \in {"pending", "approved", "denied", "rejected", "declined"}}
    IN \A rec \in events :
         Cardinality({k \in 1..Len(build.syncItems) :
                        ItemFor(build.syncItems[k], 1, rec)}) = 1

\* Absence i and leave request j of the first employee are one leave event:
\* the absence is not cancelled, no other absence and no other leave request
\* has its dates.
PairedOnce(i, j) ==
  /\ ~absences[1][i].cancelled
  /\ SameRange(absences[1][i], leaveRequests[1][j])
  /\ \A k \in 1..Len(absences[1]) : SameRange(absences[1][k], absences[1][i]) => k = i
  /\ \A k \in 1..Len(leaveRequests[1]) :
       SameRange(leaveRequests[1][k], absences[1][i]) => k = j

AbsencesOf(item, e) ==
  {a \in {absences[e][i] : i \in 1..Len(absences[e])} :
     /\ ItemFor(item, e, a)
     /\ item.status = IF a.cancelled THEN "CANCELLED" ELSE "APPROVED"}

RequestsWith(e, a) ==
  {i \in 1..Len(leaveRequests[e]) : SameRange(leaveRequests[e][i], a)}

ApprovedPairs ==
  {p \in CallIdx \X Employees \X (1..MaxRequests) \X (1..MaxAbsences) :
     /\ calls[p[1]].op = "approve" /\ calls[p[1]].ok
     /\ p[3] <= Len(leaveRequests[p[2]]) /\ p[4] <= Len(absences[p[2]])
     /\ String(leaveRequests[p[2]][p[3]].id) = calls[p[1]].arg
     /\ SameRange(leaveRequests[p[2]][p[3]], absences[p[2]][p[4]])}

C9_SessionFailure ==
  handler = "sync" =>
    /\ \A i \in CallIdx : (calls[i].op = "start" /\ ~calls[i].ok) =>
         /\ i = Len(calls)
         /\ pc = "done" => (result.status = 500 /\ result.message = "start")
    /\ \A i \in CallIdx : (calls[i].op \in {"push", "complete"} /\ ~calls[i].ok) =>
         /\ \A j \in CallIdx : j > i => (j = i + 1 /\ calls[j].op = "cancel")
         /\ pc = "done" =>
              /\ Len(calls) = i + 1
              /\ calls[i + 1].op = "cancel" /\ calls[i + 1].arg = calls[i].arg
              /\ result.status = 500 /\ result.message = calls[i].op

\* C9 witness: a push call failed, the cancel call that followed failed as
\* well, and the run answered with the error of the push call.
C9_Witness ==
  /\ handler = "sync" /\ pc = "done"
  /\ \E i \in CallIdx :
       /\ calls[i].op = "push" /\ ~calls[i].ok
       /\ i + 1 = Len(calls)
       /\ calls[i + 1].op = "cancel" /\ ~calls[i + 1].ok
  /\ result.status = 500 /\ result.message = "push"

\* C10: in a full sync run, every push, complete and cancel call names the
\* session of an earlier accepted start call of the run, which is the only
\* start call; no push follows a complete call; no cancel call is issued for
\* a session whose complete call was accepted and no complete call follows a
\* cancel call.
C10_SessionOrder ==
  handler = "sync" =>
    /\ Cardinality({i \in CallIdx : calls[i].op = "start"}) <= 1
    /\ \A j \in CallIdx : calls[j].op \in {"push", "complete", "cancel"} =>
         \E i \in CallIdx : /\ i < j
                            /\ calls[i].op = "start" /\ calls[i].ok
                            /\ calls[i].arg = calls[j].arg
    /\ \A i \in CallIdx, j \in CallIdx :
         i < j =>
           /\ calls[i].op = "complete" => calls[j].op # "push"
           /\ calls[i].op = "cancel" => calls[j].op \notin {"push", "complete"}
           /\ (calls[i].op = "complete" /\ calls[i].ok) => calls[j].op # "cancel"
    /\ \A n \in 1..Len(sessions) :
         sessions[n].state = "completed" =>
           ~\E j \in CallIdx : calls[j].op = "cancel" /\ calls[j].arg = String(n)

\* C10 witness: a run issued start, a push and complete, in this order, and
\* all were accepted.
C10_Witness ==
  /\ handler = "sync" /\ pc = "done"
  /\ Len(calls) >= 3
  /\ \E i \in CallIdx, j \in CallIdx, k \in CallIdx :
       /\ i < j /\ j < k
       /\ calls[i].op = "start" /\ calls[i].ok
       /\ calls[j].op = "push" /\ calls[j].ok
       /\ calls[k].op = "complete" /\ calls[k].ok

\* C11 as stated: a full sync run issues at most one start call, and when a
\* run that started a session has answered, the session is completed or
\* cancelled in Flip.
C11_SessionTerminal ==
  handler = "sync" =>
    /\ Cardinality({i \in CallIdx : calls[i].op = "start"}) <= 1
    /\ (pc = "done" /\ syncId # 0) =>
         sessions[syncId].state \in {"completed", "cancelled"}

\* C11 as amended: a full sync run issues at most one start call, and when a
\* run that started a session has answered, either its complete call was
\* accepted or it issued a cancel call for the session; the session is still
\* open in Flip only when that cancel call failed.
C11_SessionClosedOrCancelTried ==
  handler = "sync" =>
    /\ Cardinality({i \in CallIdx : calls[i].op = "start"}) <= 1
    /\ (pc = "done" /\ syncId # 0) =>
         /\ \/ \E i \in CallIdx : /\ calls[i].op = "complete" /\ calls[i].ok
                                  /\ calls[i].arg = String(syncId)
            \/ \E i \in CallIdx : /\ calls[i].op = "cancel"
                                  /\ calls[i].arg = String(syncId)
         /\ sessions[syncId].state = "open" =>
              \E i \in CallIdx : /\ calls[i].op = "cancel" /\ ~calls[i].ok
                                 /\ calls[i].arg = String(syncId)
         /\ sessions[syncId].state = "completed" =>
              \E i \in CallIdx : calls[i].op = "complete" /\ calls[i].ok
         /\ sessions[syncId].state = "cancelled" =>
              \E i \in CallIdx : calls[i].op = "cancel" /\ calls[i].ok

\* C11 witness: the complete call of a run failed, the cancel call was
\* accepted and the run answered with its session cancelled.
C11_Witness ==
  /\ handler = "sync" /\ pc = "done" /\ syncId # 0
  /\ sessions[syncId].state = "cancelled"
  /\ \E i \in CallIdx : calls[i].op = "complete" /\ ~calls[i].ok

OpenSessions == {n \in 1..Len(sessions) : sessions[n].state = "open"}

\* C12 as stated: whatever the interleaving of full sync invocations, at most
\* one sync session is open at any time.
C12_OneOpenSession == Cardinality(OpenSessions) <= 1

\* C12 as amended: no two invocations hold the same session, and every open
\* session is the session of an invocation in flight or one whose cancel call
\* failed; so at most one session is open while at most one invocation is in
\* flight and no cancel call has failed.
C12_OneOpenSessionPerRun ==
  /\ \A p \in Invocations, q \in Invocations :
       (p # q /\ syncId[p] # 0) => syncId[p] # syncId[q]
  /\ \A n \in OpenSessions :
       \/ \E p \in Invocations : syncId[p] = n /\ pc[p] \in {"push", "complete", "catch"}
       \/ \E i \in CallIdx : /\ calls[i].op = "cancel" /\ ~calls[i].ok
                             /\ calls[i].arg = String(n)
  /\ ( /\ Cardinality({p \in Invocations : pc[p] \notin {"idle", "done"}}) <= 1
       /\ \A i \in CallIdx : calls[i].op = "cancel" => calls[i].ok )
     => Cardinality(OpenSessions) <= 1

\* C12 witness: two invocations in flight, each with its own open session.
C12_Witness ==
  \E p \in Invocations, q \in Invocations :
    /\ p # q
    /\ syncId[p] # 0 /\ syncId[q] # 0
    /\ sessions[syncId[p]].state = "open" /\ sessions[syncId[q]].state = "open"
    /\ pc[p] = "push" /\ pc[q] = "complete"

\* The items of the accepted push calls among the first i calls, in send order.
RECURSIVE PushedItems(_)
PushedItems(i) ==
  IF i = 0 THEN <<>>
  ELSE PushedItems(i - 1) \o
         (IF calls[i].op = "push" /\ calls[i].ok THEN calls[i].items ELSE <<>>)

\* C13: every push call of a full sync run carries at least one and at most
\* 100 items; the accepted batches, in send order, are a prefix of the item
\* list, and the whole item list once the run reaches the complete call.
C13_Batches ==
  handler = "sync" =>
    /\ \A i \in CallIdx : calls[i].op = "push" =>
         (Len(calls[i].items) >= 1 /\ Len(calls[i].items) <= 100)
    /\ LET pushed == PushedItems(Len(calls))
       IN /\ Len(pushed) <= Len(build.syncItems)
          /\ pushed = SubSeq(build.syncItems, 1, Len(pushed))
          /\ (pc = "complete" \/ \E i \in CallIdx : calls[i].op = "complete") =>
               pushed = build.syncItems

\* C13 witness: a list of 250 items went out in batches of 100, 100 and 50.
C13_Witness ==
  /\ handler = "sync" /\ pc = "complete"
  /\ Len(build.syncItems) = 250
  /\ Len(calls) = 4
  /\ Len(calls[2].items) = 100 /\ Len(calls[3].items) = 100 /\ Len(calls[4].items) = 50
  /\ \A i \in 2..4 : calls[i].op = "push" /\ calls[i].ok

\* The accumulators after the mappings e..last, the employees in skip left out.
RECURSIVE BuildFrom(_, _, _, _)
BuildFrom(e, last, skip, b) ==
  IF e > last THEN b
  ELSE BuildFrom(e + 1, last, skip,
         IF e \in skip THEN b
         ELSE BuildEmployee(mappings[e], absences[e], leaveRequests[e], b))

\* C14: in a full sync run the error counter is the number of employees whose
\* fetch failed, and the item list is the list built from the other employees
\* alone, as if the failed ones were not mapped; a run in which only fetches
\* failed goes on to start, push and complete and answers 200 with the count.
C14_FetchFailureIsolated ==
  handler = "sync" =>
    /\ \E skip \in SUBSET (1..(mappingIdx - 1)) :
         /\ Cardinality(skip) = errorCount
         /\ build = BuildFrom(1, mappingIdx - 1, skip, EmptyBuild)
    /\ (errorCount > 0 /\ pc = "catch") => thrown \in {"start", "push", "complete"}
    /\ (errorCount > 0 /\ pc = "done" /\ thrown = "") =>
         /\ result.status = 200 /\ result.errors = errorCount
         /\ sessions[syncId].state = "completed"
         /\ sessions[syncId].items = build.syncItems

\* C14 witness: the fetch failed for an employee with a pending leave request;
\* the run completed its session with the items of the other employee only.
C14_Witness ==
  /\ handler = "sync" /\ pc = "done"
  /\ result.status = 200 /\ result.errors = 1
  /\ Len(sessions[syncId].items) > 0
  /\ \E e \in Employees :
       /\ \E i \in 1..Len(leaveRequests[e]) : leaveRequests[e][i].status = "pending"
       /\ \A k \in 1..Len(build.syncItems) : build.syncItems[k].absentee # FlipUser(e)

FailedDecisions == {i \in CallIdx : IsDecision(calls[i]) /\ ~calls[i].ok}

\* C15: a failed approve / reject call does not send a full sync run to its
\* catch block; once the session is started every APPROVED or REJECTED item
\* of the list has been looked up, the ones after the failed call included;
\* and a run that completes has pushed the item of the failed call with its
\* projected status.
C15_NotifyFailureTolerated ==
  (handler = "sync" /\ FailedDecisions # {}) =>
    /\ pc = "catch" => thrown \in {"start", "push", "complete"}
    /\ pc \in {"notify", "start", "push", "complete", "catch", "done"}
    /\ Started =>
         \A k \in 1..Len(build.syncItems) :
           build.syncItems[k].status \in {"APPROVED", "REJECTED"} =>
             \E i \in CallIdx : /\ calls[i].op = "lookup"
                                /\ calls[i].arg = build.syncItems[k].external_id
    /\ (pc = "done" /\ thrown = "") =>
         /\ result.status = 200
         /\ \A i \in FailedDecisions :
              \E k \in 1..Len(sessions[syncId].items) :
                /\ sessions[syncId].items[k].external_id = calls[i].arg
                /\ DecisionOp(sessions[syncId].items[k].status) = calls[i].op
                /\ sessions[syncId].items[k].status \in {"APPROVED", "REJECTED"}

\* C15 witness: the approve call for the first item failed, the lookup for a
\* later item was still made, and the completed session holds the first item
\* as APPROVED.
C15_Witness ==
  /\ handler = "sync" /\ pc = "done" /\ result.status = 200
  /\ \E i \in FailedDecisions :
       /\ calls[i].op = "approve"
       /\ \E j \in CallIdx : j > i /\ calls[j].op = "lookup"
       /\ \E k \in 1..Len(sessions[syncId].items) :
            /\ sessions[syncId].items[k].external_id = calls[i].arg
            /\ sessions[syncId].items[k].status = "APPROVED"

\* C16: when a full sync or an approval check has answered 200, the error
\* count of the answer is at least the number of approve / reject calls of the
\* run that failed.
C16_FailedDecisionsCounted ==
  (handler \in {"sync", "check"} /\ pc = "done" /\ result.status = 200) =>
    result.errors >= Cardinality(FailedDecisions)

\* C17: when a run follows a run of the same handler with HR unchanged in
\* between, and answers 200 without an error, it has issued an approve /
\* reject call for every external id whose call failed in the run before.
C17_FailedNotificationRetried ==
  ( /\ handler \in {"sync", "check"} /\ lastRun.handler = handler
    /\ pc = "done" /\ result.status = 200 /\ result.errors = 0
    /\ \A i \in CallIdx : calls[i].op = "lookup" => calls[i].ok ) =>
    \A x \in lastRun.failed : \E i \in CallIdx : IsDecision(calls[i]) /\ calls[i].arg = x

\* The items the notification loop of the running full sync has been through.
ItemsNotified ==
  IF pc = "build" THEN {}
  ELSE IF pc = "notify" THEN 1..(itemIdx - 1)
  ELSE 1..Len(build.syncItems)

\* C18: in a full sync run there is one lookup for each APPROVED or REJECTED
\* item the notification loop has been through and none for the other items;
\* in both handlers an approve / reject call comes only right after a lookup
\* by the same external id that returned a PENDING request (never after a
\* lookup that found nothing or a decided request); the full sync calls
\* approve for an APPROVED item and reject for a REJECTED one, the approval
\* check calls approve for a leave request HR approved and reject for one HR
\* denied.
C18_DecisionOnlyWhenPending ==
  handler \in {"sync", "check"} =>
    /\ \A i \in CallIdx : IsDecision(calls[i]) =>
         /\ i > 1
         /\ calls[i - 1].op = "lookup" /\ calls[i - 1].ok
         /\ calls[i - 1].status = "PENDING"
         /\ calls[i - 1].arg = calls[i].arg
         /\ handler = "sync" =>
              \E k \in ItemsNotified :
                /\ build.syncItems[k].external_id = calls[i].arg
                /\ build.syncItems[k].status \in {"APPROVED", "REJECTED"}
                /\ DecisionOp(build.syncItems[k].status) = calls[i].op
         /\ handler = "check" =>
              \E lr \in AllRequests :
                /\ String(lr.id) = calls[i].arg
                /\ lr.status \in IF calls[i].op = "approve" THEN {"approved"}
                                  ELSE {"denied", "rejected", "declined"}
    /\ handler = "sync" =>
         Cardinality({i \in CallIdx : calls[i].op = "lookup"}) =
           Cardinality({k \in ItemsNotified :
                          build.syncItems[k].status \in {"APPROVED", "REJECTED"}})

\* C18 witness: a full sync run has looked up a REJECTED item, found the
\* request PENDING and called reject, has found the request of an APPROVED
\* or REJECTED item already decided and left it alone, and its list holds an
\* item that is not REJECTED.
C18_Witness ==
  /\ handler = "sync" /\ pc = "start"
  /\ \E i \in CallIdx : calls[i].op = "reject" /\ calls[i].ok
  /\ \E i \in CallIdx : /\ calls[i].op = "lookup" /\ calls[i].ok
                        /\ calls[i].status \in {"APPROVED", "REJECTED"}
  /\ \E k \in 1..Len(build.syncItems) : build.syncItems[k].status # "REJECTED"

\* The absentees of the requests a decision call addresses (one, unless an
\* absence id and a leave request id coincide).
AbsenteesOf(c) == {r.absentee : r \in {q \in flipAtStart : q.external_id = c.arg}}

\* C19: while no call has failed, so that every profile can be read, the
\* approver passed to every approve/reject call, of the full sync as of the
\* approval check, is the manager named by the absentee's profile when the
\* profile names one, and is the absentee only when it names none.
C19_ApproverIsManager ==
  (handler \in {"sync", "check"} /\ faults = 0) =>
    \A i \in CallIdx : IsDecision(calls[i]) =>
      \E u \in AbsenteesOf(calls[i]) :
        calls[i].approver = IF managerAttr(u) # <<>> THEN managerAttr(u) ELSE u

\* C20: in the item list built for one employee no two items have the same
\* start date and the same end date, whatever the leave requests and the
\* absences are.
C20_RangesUnique ==
  Unified =>
    \A k1 \in 1..Len(build.syncItems), k2 \in 1..Len(build.syncItems) :
      (k1 # k2 /\ build.syncItems[k1].absentee = build.syncItems[k2].absentee) =>
        ~(/\ build.syncItems[k1].starts_from = build.syncItems[k2].starts_from
          /\ build.syncItems[k1].ends_at = build.syncItems[k2].ends_at)

\* C21: every cancelled absence of the employee yields exactly one item with
\* its dates, status CANCELLED and the absence's own id as external_id, also
\* when a leave request of the employee has the same dates.
C21_CancelledOwnId ==
  Unified =>
    \A i \in 1..Len(absences[1]) :
      absences[1][i].cancelled =>
        Cardinality({k \in 1..Len(build.syncItems) :
                       /\ ItemFor(build.syncItems[k], 1, absences[1][i])
                       /\ build.syncItems[k].status = "CANCELLED"
                       /\ build.syncItems[k].external_id =
                            String(absences[1][i].id)}) = 1

\* C22: when several leave requests of the employee have the dates of an
\* absence that is not cancelled, the item of the absence carries the id of
\* the first of them, in the order of HR's list.
C22_FirstRequestWins ==
  Unified =>
    \A i \in 1..Len(absences[1]) :
      LET a    == absences[1][i]
          with == RequestsWith(1, a)
      IN (~a.cancelled /\ with # {}) =>
           \E k \in 1..Len(build.syncItems) :
             /\ ItemFor(build.syncItems[k], 1, a)
             /\ build.syncItems[k].status = "APPROVED"
             /\ build.syncItems[k].external_id =
                  String(leaveRequests[1][CHOOSE j \in with :
                                            \A j2 \in with : j <= j2].id)

\* A record lacks its start date or its end date.
LacksDate(rec) == rec.start_date = 0 \/ rec.end_date = 0

\* C23: a leave request or an absence that lacks a start date or an end date
\* produces no item: once the employee's items are built, every item has both
\* dates and the list holds as many items of absences as the employee has
\* absences with both dates.
C23_MalformedSkipped ==
  (handler = "sync" /\ mappingIdx >= 2 /\ errorCount = 0) =>
    /\ \A k \in 1..Len(build.syncItems) :
         build.syncItems[k].starts_from # <<>> /\ build.syncItems[k].ends_at # <<>>
    /\ build.absenceCount =
         Cardinality({i \in 1..Len(absences[1]) : ~LacksDate(absences[1][i])})

\* The record a projection was made from, and its upstream leave reason id
\* (0 when it has none).
Projected == pc \in {"projected", "created"} /\ build.projected # <<>>
ProjectedFrom == IF absences[1] # <<>> THEN absences[1][1] ELSE leaveRequests[1][1]
UpstreamReasonId ==
  IF absences[1] # <<>> /\ ProjectedFrom.leave_reason_id = 0
    THEN ProjectedFrom.other_leave_reason_id
    ELSE ProjectedFrom.leave_reason_id

\* C24: the policy external id of every item, of an absence or of a pending
\* or rejected leave request, is the record's leave reason id when Flip has a
\* policy with that external id, and 'annual_leave' exactly when it has none.
C24_PolicyFromReason ==
  Projected =>
    build.projected[1].policy.external_id =
      IF UpstreamReasonId # 0 /\ String(UpstreamReasonId) \in build.policyByExternalId
        THEN String(UpstreamReasonId)
        ELSE annual_leave

\* The trimmed value of the first field, in the order of the list, that is
\* not empty after trimming; <<>> when every field is empty or blank.
FirstReason(raw) ==
  LET set == {i \in 1..Len(ReasonFields) : Trim(raw[ReasonFields[i]]) # <<>>}
  IN IF set = {} THEN <<>>
     ELSE Trim(raw[ReasonFields[CHOOSE i \in set : \A j \in set : i <= j]])

\* C28: the comment of a REJECTED item is the request's notes followed by the
\* trimmed value of the first listed field that is not empty after trimming;
\* it is the notes alone only when every listed field is empty or blank, and
\* for every item with another status.
C28_FirstReasonAppended ==
  (Projected /\ absences[1] = <<>>) =>
    LET lr     == ProjectedFrom
        item   == build.projected[1]
        reason == FirstReason(lr.reasons)
    IN item.requestor_comment =
         IF item.status = "REJECTED" /\ reason # <<>>
           THEN IF lr.notes # <<>>
                  THEN lr.notes \o <<"\n\n--- Manager's reason: ">> \o reason
                  ELSE <<"Manager's reason: ">> \o reason
           ELSE lr.notes

\* C25 as stated: the projector gives starts_from the type SECOND_HALF exactly
\* when half_start is true and ends_at the type FIRST_HALF exactly when
\* half_end is true, and a date d the value 'dT00:00:00'; the created-event
\* mapping of the projected value has the half_start, half_end, start date
\* and end date of the record.
C25_HalfDayRoundTrip ==
  Projected =>
    LET rec  == ProjectedFrom
        item == build.projected[1]
    IN /\ item.starts_from = [date |-> LocalDateTime(rec.start_date),
                              type |-> IF rec.half_start THEN "SECOND_HALF"
                                       ELSE "undefined"]
       /\ item.ends_at = [date |-> LocalDateTime(rec.end_date),
                          type |-> IF rec.half_end THEN "FIRST_HALF"
                                   ELSE "undefined"]
       /\ pc = "created" =>
            result[1] = [start_date |-> rec.start_date, end_date |-> rec.end_date,
                         half_start |-> rec.half_start, half_end |-> rec.half_end]

\* The half-day flags of a record: a leave request has them under two names.
HalfStart(rec) ==
  IF absences[1] # <<>> THEN rec.half_start ELSE rec.half_start \/ rec.start_half_day
HalfEnd(rec) ==
  IF absences[1] # <<>> THEN rec.half_end ELSE rec.half_end \/ rec.end_half_day

\* C25 as amended: the same, the start flag of a leave request being
\* half_start or start_half_day and its end flag half_end or end_half_day.
C25_HalfDayRoundTripBothNames ==
  Projected =>
    LET rec  == ProjectedFrom
        item == build.projected[1]
    IN /\ item.starts_from = [date |-> LocalDateTime(rec.start_date),
                              type |-> IF HalfStart(rec) THEN "SECOND_HALF"
                                       ELSE "undefined"]
       /\ item.ends_at = [date |-> LocalDateTime(rec.end_date),
                          type |-> IF HalfEnd(rec) THEN "FIRST_HALF"
                                   ELSE "undefined"]
       /\ pc = "created" =>
            result[1] = [start_date |-> rec.start_date, end_date |-> rec.end_date,
                         half_start |-> HalfStart(rec), half_end |-> HalfEnd(rec)]

\* C25 witness: the created-event mapping has been applied to the projection
\* of a leave request of two days whose start flag is set as start_half_day
\* only and whose end flag is not set, and has given half_start and no
\* half_end.
C25_Witness ==
  /\ pc = "created" /\ leaveRequests[1] # <<>>
  /\ ProjectedFrom.start_half_day /\ ~ProjectedFrom.half_start
  /\ ~ProjectedFrom.half_end /\ ~ProjectedFrom.end_half_day
  /\ ProjectedFrom.start_date < ProjectedFrom.end_date
  /\ build.projected[1].starts_from.type = "SECOND_HALF"
  /\ result[1].half_start /\ ~result[1].half_end
  /\ result[1].end_date = ProjectedFrom.end_date

\* The employee has a reference, and a Flip user has it as exthrref.
Matched(e) ==
  /\ extractRef(leaveRequests[e]) # <<>>
  /\ \E u \in flip : u.exthrref = extractRef(leaveRequests[e])

\* C26: the list getAllMappings returns has at most one mapping per HR
\* employee id and at most one per Flip user id, after any sequence of
\* refreshes; when the call has refreshed, the list has no mapping of an
\* employee who has no reference or no matching user.
C26_OneMappingPerIdentity ==
  result.op = "getAllMappings" =>
    /\ \A m1 \in result.value, m2 \in result.value :
         (m1.breatheEmployeeId = m2.breatheEmployeeId
            \/ m1.flipUserId = m2.flipUserId) => m1 = m2
    /\ result.refreshed => \A m \in result.value : Matched(m.breatheEmployeeId)

\* A step is a lookup that returned.
LookupStep ==
  /\ result'.op \notin {"none", "threw"}
  /\ runs' = runs /\ leaveRequests' = leaveRequests /\ flip' = flip
  /\ (result' # result \/ managerCache' # managerCache)

\* C27: a lookup that refreshes leaves in the three Maps exactly the mappings
\* of that scan, nothing of an earlier scan; a lookup refreshes only when the
\* TTL has expired or the cache is empty, and otherwise leaves the Maps alone.
C27_RebuiltWholesale ==
  [][LookupStep =>
       IF result'.refreshed
         THEN /\ Stale(managerCache, runs)
              /\ managerCache' = refreshMappings(leaveRequests, 1, flip, result'.lost,
                                                 EmptyCache, runs)
         ELSE managerCache' = managerCache]_vars

\* The leave requests of the HR system whose external id a call names.
RequestsNamedBy(c) ==
  {lr \in UNION {{leaveRequests[e][k] : k \in 1..Len(leaveRequests[e])} :
                   e \in Employees} :
     String(lr.id) = c.arg}

\* C29: a run of the approval-status check calls approve with the external id
\* of no leave request that HR denied, rejected or declined, and calls reject
\* with the external id of no leave request that HR approved.
C29_DecisionsFollowHR ==
  \A i \in CallIdx :
    IsDecision(calls[i]) =>
      \A lr \in RequestsNamedBy(calls[i]) :
        /\ calls[i].op = "approve" => lr.status \notin {"denied", "rejected", "declined"}
        /\ calls[i].op = "reject" => lr.status # "approved"

\* C30: in one run of the approval-status check, at most one approve or reject
\* call is issued per external id, failed calls included.
C30_OneCallPerExternalId ==
  \A i \in CallIdx, j \in CallIdx :
    (IsDecision(calls[i]) /\ IsDecision(calls[j]) /\ calls[i].arg = calls[j].arg)
      => i = j

\* The status of the item section B builds for a leave request.
ItemStatusOf(lr) == IF lr.status = "pending" THEN "PENDING" ELSE "REJECTED"

\* C31: a pending or denied leave request is left out of the item list only
\* when an absence of the same employee has its date range; an absence with
\* other dates whose numeric id equals the request's id does not remove it.
C31_LeftOutOnlyWhenUnified ==
  Unified =>
    \A j \in 1..Len(leaveRequests[1]) :
      LET lr == leaveRequests[1][j]
      IN lr.status \in {"pending", "denied"} =>
           \/ \E k \in 1..Len(build.syncItems) :
                /\ ItemFor(build.syncItems[k], 1, lr)
                /\ build.syncItems[k].external_id = String(lr.id)
                /\ build.syncItems[k].status = ItemStatusOf(lr)
           \/ \E i \in 1..Len(absences[1]) : SameRange(absences[1][i], lr)

\* Every failure of the run was the failure of an employee's fetch.
OnlyFetchesFailed == errorCount > 0 /\ errorCount = faults - FetchFaultsStart

\* The employees of whom Flip holds no request.
AbsentDownstream == {e \in Employees : \A r \in flip : r.absentee # FlipUser(e)}

\* C32: a full sync run in which only fetches of employees failed still starts
\* and completes its session and answers 200 with the failures counted; after
\* it Flip holds no request of at least as many employees as fetches failed,
\* and when the fetch of every employee failed no batch is pushed, Flip is
\* left empty and nothing is reported as synced.
C32_FetchFailureCompletes ==
  (handler = "sync" /\ pc = "done" /\ OnlyFetchesFailed) =>
    /\ result.status = 200
    /\ result.errors = errorCount
    /\ \E i \in CallIdx : calls[i].op = "start" /\ calls[i].ok
    /\ \E i \in CallIdx : calls[i].op = "complete" /\ calls[i].ok
    /\ sessions[syncId].state = "completed"
    /\ Cardinality(AbsentDownstream) >= errorCount
    /\ errorCount = NumEmployees =>
         /\ flip = {}
         /\ \A i \in CallIdx : calls[i].op # "push"
         /\ result.synced = 0

C32_Witness ==
  /\ handler = "sync" /\ pc = "done" /\ OnlyFetchesFailed
  /\ errorCount = NumEmployees
  /\ flipAtStart # {}
  /\ \E e \in Employees : leaveRequests[e] # <<>> /\ absences[e] # <<>>

\* The calls of the log that are about Flip's request id.
CallsAbout(id) == SelectSeq(calls, LAMBDA c : c.request = id)

Requested(k) == tally.items[k].type = "hr.absence.requested"
MappedUser(k) == breatheEmployeeIdOf(tally.items[k].data.absentee) # 0

\* C35: the webhook handler issues no approve or reject call; every
\* patchExternalId call directly follows the accepted createLeaveRequest call
\* for the same request and carries the id HR returned; when a created event
\* of a mapped user has been handled, its calls are that pair, HR holds the
\* new leave request as pending and Flip's request is PENDING under its id;
\* when the user is unmapped and no call fails, no leave request is created
\* and the one call about the request puts it in error status.
C35_CreatedThenPatched ==
  /\ \A i \in CallIdx : calls[i].op \notin {"approve", "reject"}
  /\ \A i \in CallIdx :
       calls[i].op = "patchExternalId" =>
         /\ i > 1
         /\ calls[i - 1] = WebhookCall("createLeaveRequest", calls[i].request,
                                       calls[i].arg, TRUE)
  /\ tally.pc = "item" =>
       \A k \in 1..(tally.idx - 1) :
         Requested(k) =>
           LET data == tally.items[k].data
               mine == CallsAbout(data.id)
           IN /\ MappedUser(k)
              /\ Len(mine) = 2
              /\ mine[1].op = "createLeaveRequest" /\ mine[1].ok
              /\ mine[2].op = "patchExternalId" /\ mine[2].ok
              /\ \E r \in flip : /\ RequestId(r) = data.id
                                 /\ r.status = "PENDING"
                                 /\ r.external_id = mine[1].arg
              /\ \E lr \in LeaveRequestsById(ParseInt(mine[1].arg)) :
                   /\ lr.status = "pending"
                   /\ lr.start_date = DatePart(data.starts_from.date)
                   /\ lr.end_date = DatePart(data.ends_at.date)
  /\ (tally.pc = "catch" /\ faults = 0
        /\ Requested(tally.idx) /\ ~MappedUser(tally.idx)) =>
       LET id == tally.items[tally.idx].data.id
       IN /\ CallsAbout(id) = <<WebhookCall("setError", id, <<>>, TRUE)>>
          /\ \E r \in flip : RequestId(r) = id /\ r.status = "ERROR"

C35_Witness ==
  /\ tally.pc = "catch" /\ tally.idx = 2
  /\ Requested(1) /\ MappedUser(1)
  /\ Requested(2) /\ ~MappedUser(2)
  /\ \E i \in CallIdx : calls[i].op = "patchExternalId" /\ calls[i].ok
  /\ \E i \in CallIdx : calls[i].op = "setError" /\ calls[i].ok

\* C36: when the handling of item k of a batch has failed, every error call
\* names the request of item k, no request of another item is in error
\* status, and no call is about an item after k.
C36_ErrorOnFailedItem ==
  (tally.pc = "done" /\ tally.status = 500) =>
    LET failed == tally.items[tally.idx].data.id
    IN /\ \A i \in CallIdx : calls[i].op = "setError" => calls[i].request = failed
       /\ \A r \in flip : r.status = "ERROR" => RequestId(r) = failed
       /\ \A k \in (tally.idx + 1)..Len(tally.items) :
            CallsAbout(tally.items[k].data.id) = <<>>

\* The HR cancel calls of the log that are about Flip's request id.
CancelCalls(id) ==
  SelectSeq(calls, LAMBDA c : /\ c.request = id
                              /\ c.op \in {"cancelLeaveRequest", "cancelAbsence"})

\* An absence of employee e that is not cancelled and has these dates.
LiveAbsence(e, id, startDate, endDate) ==
  \E i \in 1..Len(absences[e]) :
    /\ id \in {0, absences[e][i].id}
    /\ ~absences[e][i].cancelled
    /\ absences[e][i].start_date = startDate
    /\ absences[e][i].end_date = endDate

\* C37: for a cancellation event, the HR cancel calls are cancelLeaveRequest
\* and, only after its failure, one cancelAbsence; at most one of them is
\* accepted, and none when the handler throws; cancelAbsence is about to be
\* called only for an absence of the mapped employee that is not cancelled and
\* has the dates of the event or of the leave request, and the handler is
\* about to throw only when no live absence has the event's dates; an event
\* without external id leads to no HR call and to no throw.
C37_OneCancel ==
  /\ \A k \in 1..Len(tally.items) :
       tally.items[k].type = "hr.absence.cancelled" =>
         LET data == tally.items[k].data
             mine == CancelCalls(data.id)
         IN /\ data.external_id = <<>> =>
                 /\ mine = <<>>
                 /\ ~(tally.idx = k /\ tally.pc \in {"find", "cancel", "catch"})
            /\ Cardinality({i \in 1..Len(mine) : mine[i].ok}) <= 1
            /\ Len(mine) <= 2
            /\ Len(mine) >= 1 => /\ mine[1].op = "cancelLeaveRequest"
                                 /\ mine[1].arg = data.external_id
            /\ Len(mine) = 2 => ~mine[1].ok /\ mine[2].op = "cancelAbsence"
            /\ (tally.idx = k /\ tally.pc = "catch") =>
                 \A i \in 1..Len(mine) : ~mine[i].ok
  /\ tally.pc = "cancel" =>
       LET data      == WebhookItem.data
           e         == breatheEmployeeIdOf(data.absentee)
           startDate == DatePart(data.starts_from.date)
           endDate   == DatePart(data.ends_at.date)
       IN IF tally.matchingAbsence # 0
          THEN \/ LiveAbsence(e, tally.matchingAbsence, startDate, endDate)
               \/ \E lr \in LeaveRequestsById(ParseInt(data.external_id)) :
                    LiveAbsence(e, tally.matchingAbsence, lr.start_date, lr.end_date)
          ELSE ~LiveAbsence(e, 0, startDate, endDate)

C37_Witness ==
  /\ tally.pc = "item" /\ tally.idx = 2
  /\ tally.items[1].type = "hr.absence.cancelled"
  /\ Len(calls) = 2
  /\ calls[1].op = "cancelLeaveRequest" /\ ~calls[1].ok
  /\ calls[2].op = "cancelAbsence" /\ calls[2].ok
  /\ DatePart(tally.items[1].data.starts_from.date) = 0
  /\ Len(absences[1]) = 2

\* The external ids the created-event handler has patched into Flip.
PatchedIds == {calls[i].arg : i \in {j \in CallIdx : calls[j].op = "patchExternalId"
                                                       /\ calls[j].ok}}

\* The full sync built an item for the leave request with this external id.
FetchedByRun(externalId) ==
  \E k \in 1..Len(build.syncItems) :
    /\ build.syncItems[k].external_id = externalId
    /\ build.syncItems[k].status = "PENDING"

\* C33: when the created-event handler has created a leave request and
\* patched its id into Flip's request while a full sync run was in flight that
\* had fetched the employee's lists before, Flip still holds the request,
\* PENDING, after the run has completed its session.
C33_CreatedSurvivesRun ==
  (handler = "sync" /\ pc = "done" /\ result.status = 200 /\ tally.pc = "done") =>
    \A externalId \in PatchedIds :
      ~FetchedByRun(externalId) =>
        \E r \in flip : /\ r.external_id = externalId
                        /\ r.status = "PENDING"
                        /\ r.absentee = FlipUser(1)

\* The decision calls (accepted or not) issued for one external id.
DecisionCallsFor(externalId) ==
  {i \in CallIdx : IsDecision(calls[i]) /\ calls[i].arg = externalId}

\* C34: when two runs interleave (an approval check and a full sync, or two
\* of a kind), at most one of them issues the approve or reject call for a
\* Flip request that was PENDING: the request's transition to its decided
\* status is announced once.
C34_OneDecisionPerTransition ==
  \A r \in flip : Cardinality(DecisionCallsFor(r.external_id)) <= 1

\* The steps the orchestrator has invoked, in the order of their fetches.
InvokedSteps ==
  LET isInvoke(c) == c.op = "invoke"
      invokes == SelectSeq(calls, isInvoke)
  IN [i \in 1..Len(invokes) |-> invokes[i].arg]

\* The steps are invoked in the fixed order, each at most once.
InFixedOrder ==
  /\ Len(InvokedSteps) <= Len(StepsOf(build.version))
  /\ \A i \in 1..Len(InvokedSteps) : InvokedSteps[i] = StepsOf(build.version)[i]

\* Strictly one after another: no step's invocation runs while a later step
\* has begun, so at most one of them is running at any time; in particular
\* the approval-status check is not running once the absence sync has begun.
OneAfterAnother ==
  /\ Cardinality({s \in StepNames : tally[s] = "running"}) <= 1
  /\ tally["absences"] # "idle" => tally["approval_status"] # "running"

\* An accepted invocation ends with every step invoked and the ok response.
AllStepsThenOk ==
  (pc = "done" /\ build.method \in {"POST", "GET"})
     => /\ InvokedSteps = StepsOf(build.version)
        /\ result.status = 200 /\ result.message = "ok"

\* C38: the sync-all orchestrator invokes its steps strictly one after
\* another in the order policies, balances, approval-status check, absences;
\* the approval-status step has finished before the absence sync begins; and a
\* failing step neither prevents the later steps from being invoked nor the
\* ok response.
C38_StepsInSequence ==
  InFixedOrder /\ OneAfterAnother /\ AllStepsThenOk

\* The calls of the current run that name leave request lr.
CallsNaming(lr) == {i \in CallIdx : calls[i].arg = String(lr.id)}

\* The approve / reject call for lr threw in the current run.
DecisionFailed(lr) ==
  \E i \in CallsNaming(lr) : IsDecision(calls[i]) /\ ~calls[i].ok

\* The employees one of whose decision calls threw in the current run.
CutShort ==
  {e \in Employees :
     \E i \in 1..Len(leaveRequests[e]) : DecisionFailed(leaveRequests[e][i])}

\* The employees none of whose leave requests the current run has named.
Unnamed ==
  {e \in Employees :
     \A i \in 1..Len(leaveRequests[e]) : CallsNaming(leaveRequests[e][i]) = {}}

\* Every decided leave request of employee e was looked up in this run.
LookedUpAll(e) ==
  \A i \in 1..Len(leaveRequests[e]) :
    leaveRequests[e][i].status \in {"approved", "denied"}
       => CallsNaming(leaveRequests[e][i]) # {}

\* C39: in the approval check a failing approve / reject call adds one to the
\* error count and ends the processing of that employee's remaining leave
\* requests in this run, and the employees after it are still processed; so
\* in no run in which the call of a decided request fails does a request
\* later in that employee's list get a lookup or a decision call.
C39_FailureAbandonsEmployee ==
  handler = "check" =>
    /\ \A e \in Employees : \A i \in 1..Len(leaveRequests[e]) :
         DecisionFailed(leaveRequests[e][i])
            => \A j \in (i + 1)..Len(leaveRequests[e]) :
                 CallsNaming(leaveRequests[e][j]) = {}
    /\ errorCount >= Cardinality(CutShort)
    /\ errorCount - Cardinality(CutShort) <= Cardinality(Unnamed)
    /\ pc = "respond" =>
         /\ mappingIdx = NumEmployees + 1
         /\ errorCount = Cardinality(CutShort)
              => \A e \in Employees : e \in CutShort \/ LookedUpAll(e)

\* A finished run in which employee 1's first decision call failed with a
\* decided request after it, and a later employee's request was decided.
C39_Witness ==
  /\ handler = "check" /\ pc = "respond"
  /\ errorCount = 1
  /\ Len(leaveRequests[1]) >= 2
  /\ DecisionFailed(leaveRequests[1][1])
  /\ leaveRequests[1][2].status \in {"approved", "denied"}
  /\ \E e \in Employees \ {1} : \E i \in 1..Len(leaveRequests[e]) :
       \E c \in CallsNaming(leaveRequests[e][i]) :
         IsDecision(calls[c]) /\ calls[c].ok

====
